---- MODULE Spec2Model ----
(***************************************************************************)
(* Sentiment analytics and burnout detection of the employee engagement   *)
(* pulse: the database module (SQLite and Vercel KV backends) and the     *)
(* alert generation route built on it.                                    *)
(*                                                                         *)
(* Units.  sentiment_score is a REAL on the 1..10 scale; the model keeps  *)
(* it in tenths (38 is 3.8), so every threshold of the code is ten times  *)
(* its source value.  Means, slopes and percentages are exact rationals   *)
(* [num, den]; binary floating-point rounding is not modelled.            *)
(*                                                                         *)
(* Time.  An instant is a calendar day (an integer, UTC) and a time of    *)
(* day, 0 (morning) or 1 (evening); now is the instant of the request.    *)
(***************************************************************************)
EXTENDS Integers, Sequences, FiniteSets, TLC

VARIABLES backend, channels, messages, alerts, now, resp, proc

vars == <<backend, channels, messages, alerts, now, resp, proc>>

(***************************************************************************)
(* Program constants (tenths of a sentiment point, days, message counts). *)
(***************************************************************************)
StreakThreshold == 40
MinStreakDays == 3
StreakWindowDays == 7
TrendWindowDays == 5
MinTrendMessages == 3
MinTrendDays == 3
TrendSlopeLimitTenths == 3
TrendAvgLimit == 60
UserAvgLimit == 45
UserNegativePctLimit == 30
NegativeBelow == 40
PositiveFrom == 70
LowSentimentBelow == 40
ModerateBelow == 55
CriticalUserBelow == 30
DailyTrendDaysAlerts == 7

\* A NULL sentiment_score: what SQLite stores when NaN is bound to the REAL
\* column.  No score is negative, so -1 stands for it.
NullScore == -1

(***************************************************************************)
(* Exact rationals.                                                        *)
(***************************************************************************)
RECURSIVE GCD(_, _)
GCD(a, b) == IF b = 0 THEN a ELSE GCD(b, a % b)

Abs(x) == IF x < 0 THEN -x ELSE x

Rat(n, d) ==
  LET g == GCD(Abs(n), Abs(d))
      s == IF d < 0 THEN -1 ELSE 1
  IN [num |-> (s * n) \div g, den |-> (s * d) \div g]

RInt(n) == [num |-> n, den |-> 1]
RLt(a, b) == a.num * b.den < b.num * a.den
RLe(a, b) == a.num * b.den <= b.num * a.den
REq(a, b) == a.num * b.den = b.num * a.den
RAdd(a, b) == Rat(a.num * b.den + b.num * a.den, a.den * b.den)
RSub(a, b) == Rat(a.num * b.den - b.num * a.den, a.den * b.den)
RMul(a, b) == Rat(a.num * b.num, a.den * b.den)

\* The sum of f over the set of integers S, by halves of its range.
RECURSIVE FSum(_, _)
FSum(f, S) ==
  IF S = {} THEN 0
  ELSE LET lo == CHOOSE x \in S : \A y \in S : x <= y
           hi == CHOOSE x \in S : \A y \in S : x >= y
           mid == (lo + hi) \div 2
       IN IF lo = hi THEN f[lo]
          ELSE FSum(f, {x \in S : x <= mid}) + FSum(f, {x \in S : x > mid})

RECURSIVE RSum(_, _)
RSum(f, S) ==
  IF S = {} THEN RInt(0)
  ELSE LET x == CHOOSE y \in S : TRUE IN RAdd(f[x], RSum(f, S \ {x}))

\* The elements of S in the strict total order Less, as a sequence.
SortSet(S, Less(_, _)) ==
  [i \in 1..Cardinality(S) |->
     CHOOSE x \in S : Cardinality({y \in S : Less(y, x)}) = i - 1]

Range(s) == {s[i] : i \in DOMAIN s}

RECURSIVE Flatten(_)
Flatten(ss) == IF ss = <<>> THEN <<>> ELSE Head(ss) \o Flatten(Tail(ss))

(***************************************************************************)
(* The message table / the KV lists messages:<channel>.  A row is         *)
(* [channel_id, user_id, day, tod, sentiment_score]; its id is its index. *)
(***************************************************************************)
Rows(P(_)) == {i \in DOMAIN messages : P(messages[i])}

\* The rows of I that have a score: SUM and AVG pass over a NULL.
Scored(I) == {i \in I : messages[i].sentiment_score # NullScore}

ScoreSum(I) == FSum([i \in Scored(I) |-> messages[i].sentiment_score], Scored(I))

\* The NULL that AVG returns for rows without any score; RLt is false of it.
NullAvg == [num |-> 0, den |-> 0]

\* AVG(sentiment_score) over the rows I (I is never empty where it is used).
Avg(I) == IF Scored(I) = {} THEN NullAvg ELSE Rat(ScoreSum(I), Cardinality(Scored(I)))

\* timestamp >= datetime('now', '-N days'): a TEXT comparison of the stored ISO
\* string 'YYYY-MM-DDTHH:MM:SS.sssZ' with 'YYYY-MM-DD HH:MM:SS'; on the cutoff
\* date the 'T' sorts after the space, so the whole cutoff date is inside.
InWindowSqlite(m, days) == m.day >= now.day - days

\* new Date(m.timestamp) >= cutoffDate, cutoffDate = now minus N days: instants.
InWindowKv(m, days) ==
  \/ m.day > now.day - days
  \/ m.day = now.day - days /\ m.tod >= now.tod

(***************************************************************************)
(* SQLite: the CTE daily_sentiment, GROUP BY channel_id, DATE(timestamp). *)
(***************************************************************************)
MessageChannels == {messages[i].channel_id : i \in DOMAIN messages}

MessageUsers == {messages[i].user_id : i \in DOMAIN messages}

DayRows(c, d, days) ==
  Rows(LAMBDA m : m.channel_id = c /\ m.day = d /\ InWindowSqlite(m, days))

SqliteDays(c, days) ==
  {messages[i].day :
     i \in Rows(LAMBDA m : m.channel_id = c /\ InWindowSqlite(m, days))}

DailySentiment(c, d, days) == Avg(DayRows(c, d, days))

\* ROW_NUMBER() OVER (... ORDER BY date) of the row of date d in a partition.
RowNumber(part, d) == Cardinality({e \in part : e <= d})

(***************************************************************************)
(* SQLite detectBurnoutRisks, first query: consecutive low days.  The     *)
(* WHERE daily_sentiment < 4.0 of low_sentiment_days is applied before    *)
(* its window functions, so both ROW_NUMBER()s number the low days only.  *)
(***************************************************************************)
LowCase(c, d) ==
  IF RLt(DailySentiment(c, d, StreakWindowDays), RInt(StreakThreshold)) THEN 1 ELSE 0

LowSentimentDays(c) ==
  {d \in SqliteDays(c, StreakWindowDays) : LowCase(c, d) = 1}

StreakGrp(c, d) ==
  RowNumber(LowSentimentDays(c), d)
    - RowNumber({e \in LowSentimentDays(c) : LowCase(c, e) = LowCase(c, d)}, d)

StreakGroupDays(c, g) == {d \in LowSentimentDays(c) : StreakGrp(c, d) = g}

Min(S) == CHOOSE x \in S : \A y \in S : x <= y
Max(S) == CHOOSE x \in S : \A y \in S : x >= y

StreakRow(c, g) ==
  LET D == StreakGroupDays(c, g)
  IN [channel_id |-> c,
      streak_start |-> Min(D),
      streak_end |-> Max(D),
      consecutive_days |-> Cardinality(D),
      avg_sentiment_in_streak |->
        RMul(RSum([d \in D |-> DailySentiment(c, d, StreakWindowDays)], D),
             Rat(1, Cardinality(D)))]

SqliteConsecutiveLowDays ==
  LET keys == UNION {{<<c, StreakGrp(c, d)>> : d \in LowSentimentDays(c)} :
                       c \in MessageChannels}
      kept == {k \in keys : Cardinality(StreakGroupDays(k[1], k[2])) >= MinStreakDays}
      Less(a, b) == a[1] < b[1] \/ (a[1] = b[1] /\ a[2] < b[2])
      order == SortSet(kept, Less)
  IN [i \in DOMAIN order |-> StreakRow(order[i][1], order[i][2])]

(***************************************************************************)
(* SQLite detectBurnoutRisks, second query: declining trends.             *)
(***************************************************************************)
\* Variant of TrendDays without the HAVING clause: every date is a point.
TrendDaysAll(c) == SqliteDays(c, TrendWindowDays)

\* daily_sentiment of the trend query: HAVING COUNT(*) >= 3 drops the dates
\* with fewer than three messages before ROW_NUMBER() numbers the rest.
TrendDays(c) ==
  {d \in SqliteDays(c, TrendWindowDays) :
     Cardinality(DayRows(c, d, TrendWindowDays)) >= MinTrendMessages}

DayNum(c, d) == RowNumber(TrendDays(c), d)

\* Variant of TrendSlope that leaves the COUNT(*) factors out.
TrendSlopeNoCount(c) ==
  LET D == TrendDays(c)
      y == [d \in D |-> DailySentiment(c, d, TrendWindowDays)]
      sxy == RSum([d \in D |-> RMul(RInt(DayNum(c, d)), y[d])], D)
      sx == FSum([d \in D |-> DayNum(c, d)], D)
      sy == RSum(y, D)
      sxx == FSum([d \in D |-> DayNum(c, d) * DayNum(c, d)], D)
      top == RSub(sxy, RMul(RInt(sx), sy))
      bottom == sxx - sx * sx
  IN IF bottom = 0
       THEN [null |-> TRUE, val |-> RInt(0)]
       ELSE [null |-> FALSE, val |-> RMul(top, Rat(1, bottom))]

\* (COUNT(*) * SUM(day_num * daily_sentiment) - SUM(day_num) * SUM(daily_sentiment))
\*   / (COUNT(*) * SUM(day_num * day_num) - SUM(day_num) * SUM(day_num));
\* a zero divisor makes the SQL value NULL.
TrendSlope(c) ==
  LET D == TrendDays(c)
      n == Cardinality(D)
      y == [d \in D |-> DailySentiment(c, d, TrendWindowDays)]
      sxy == RSum([d \in D |-> RMul(RInt(DayNum(c, d)), y[d])], D)
      sx == FSum([d \in D |-> DayNum(c, d)], D)
      sy == RSum(y, D)
      sxx == FSum([d \in D |-> DayNum(c, d) * DayNum(c, d)], D)
      top == RSub(RMul(RInt(n), sxy), RMul(RInt(sx), sy))
      bottom == n * sxx - sx * sx
  IN IF bottom = 0
       THEN [null |-> TRUE, val |-> RInt(0)]
       ELSE [null |-> FALSE, val |-> RMul(top, Rat(1, bottom))]

TrendAnalysisRow(c) ==
  LET D == TrendDays(c)
  IN [channel_id |-> c,
      days_count |-> Cardinality(D),
      trend_slope |-> TrendSlope(c),
      avg_sentiment |->
        RMul(RSum([d \in D |-> DailySentiment(c, d, TrendWindowDays)], D),
             Rat(1, Cardinality(D)))]

\* The rows of trend_analysis: one per channel that has a row in daily_sentiment.
TrendAnalysis == {TrendAnalysisRow(c) : c \in {x \in MessageChannels : TrendDays(x) # {}}}

\* Variant of IsDeclining without the condition on avg_sentiment.
IsDecliningSlopeOnly(row) ==
  /\ row.days_count >= MinTrendDays
  /\ ~row.trend_slope.null
  /\ RLt(row.trend_slope.val, RInt(-TrendSlopeLimitTenths))

\* WHERE days_count >= 3 AND trend_slope < -0.3 AND avg_sentiment < 6.0
\* (a NULL slope fails the comparison).
IsDeclining(row) ==
  /\ row.days_count >= MinTrendDays
  /\ ~row.trend_slope.null
  /\ RLt(row.trend_slope.val, RInt(-TrendSlopeLimitTenths))
  /\ RLt(row.avg_sentiment, RInt(TrendAvgLimit))

SqliteDecliningTrends ==
  LET kept == {row \in TrendAnalysis : IsDeclining(row)}
      Less(a, b) == a.channel_id < b.channel_id
  IN SortSet(kept, Less)

(***************************************************************************)
(* SQLite detectBurnoutRisks, third query: users at risk.                 *)
(***************************************************************************)
\* ROUND(k * 100.0 / n, 1), a percentage with one decimal.
RoundPct1(k, n) == Rat((2000 * k + n) \div (2 * n), 10)

\* CASE WHEN sentiment_score < 4.0: not true of a NULL.
IsNegative(m) == m.sentiment_score # NullScore /\ m.sentiment_score < NegativeBelow

SqliteUserRow(u) ==
  LET I == Rows(LAMBDA m : m.user_id = u /\ InWindowSqlite(m, StreakWindowDays))
  IN [user_id |-> u,
      channels_active |-> Cardinality({messages[i].channel_id : i \in I}),
      total_messages |-> Cardinality(I),
      avg_sentiment |-> Avg(I),
      negative_message_percentage |->
        RoundPct1(Cardinality({i \in I : IsNegative(messages[i])}), Cardinality(I))]

\* HAVING avg_sentiment < 4.5 AND negative_message_percentage > 30
IsAtRisk(row) ==
  /\ RLt(row.avg_sentiment, RInt(UserAvgLimit))
  /\ RLt(RInt(UserNegativePctLimit), row.negative_message_percentage)

\* ORDER BY avg_sentiment ASC (rows of equal average: by user id here).
UserLess(a, b) ==
  \/ RLt(a.avg_sentiment, b.avg_sentiment)
  \/ REq(a.avg_sentiment, b.avg_sentiment) /\ a.user_id < b.user_id

SqliteUserBurnoutRisks ==
  LET users == {messages[i].user_id :
                  i \in Rows(LAMBDA m : InWindowSqlite(m, StreakWindowDays))}
      kept == {row \in {SqliteUserRow(u) : u \in users} : IsAtRisk(row)}
  IN SortSet(kept, UserLess)

SqliteDetectBurnoutRisks ==
  [consecutive_low_channels |-> SqliteConsecutiveLowDays,
   declining_trend_channels |-> SqliteDecliningTrends,
   at_risk_users |-> SqliteUserBurnoutRisks]

(***************************************************************************)
(* KV detectBurnoutRisks ("simplified burnout detection for KV"): it      *)
(* reads messages:<id> of the registered channels only.                   *)
(***************************************************************************)
KvSimplifiedDays == 3

KvRecent(c, days) == Rows(LAMBDA m : m.channel_id = c /\ InWindowKv(m, days))

KvLowRow(c) ==
  [channel_id |-> c,
   streak_start |-> now.day - StreakWindowDays,
   streak_end |-> now.day,
   consecutive_days |-> KvSimplifiedDays,
   avg_sentiment_in_streak |-> Avg(KvRecent(c, StreakWindowDays))]

KvIsLow(c) ==
  /\ KvRecent(c, StreakWindowDays) # {}
  /\ RLt(Avg(KvRecent(c, StreakWindowDays)), RInt(StreakThreshold))

KvConsecutiveLowChannels ==
  LET low == SelectSeq(channels, KvIsLow)
  IN [i \in DOMAIN low |-> KvLowRow(low[i])]

\* decliningTrendChannels is declared and returned, and nothing is pushed to it.
KvDecliningTrendChannels == <<>>

\* The rows the loop over the channels feeds to atRiskUsers.
KvTracked ==
  Rows(LAMBDA m : m.channel_id \in Range(channels) /\ InWindowKv(m, StreakWindowDays))

KvUserRow(u) ==
  LET I == {i \in KvTracked : messages[i].user_id = u}
  IN [user_id |-> u,
      channels_active |-> Cardinality({messages[i].channel_id : i \in I}),
      total_messages |-> Cardinality(I),
      avg_sentiment |-> Avg(I),
      negative_message_percentage |->
        Rat(100 * Cardinality({i \in I : IsNegative(messages[i])}), Cardinality(I))]

KvUserBurnoutRisks ==
  LET users == {messages[i].user_id : i \in KvTracked}
      kept == {row \in {KvUserRow(u) : u \in users} : IsAtRisk(row)}
  IN SortSet(kept, UserLess)

KvDetectBurnoutRisks ==
  [consecutive_low_channels |-> KvConsecutiveLowChannels,
   declining_trend_channels |-> KvDecliningTrendChannels,
   at_risk_users |-> KvUserBurnoutRisks]

DetectBurnoutRisksResult ==
  IF backend = "sqlite" THEN SqliteDetectBurnoutRisks ELSE KvDetectBurnoutRisks

(***************************************************************************)
(* getChannelSummary and getDailyMoodTrends, both backends.               *)
(***************************************************************************)
InWindow(m, days) ==
  IF backend = "sqlite" THEN InWindowSqlite(m, days) ELSE InWindowKv(m, days)

\* SQLite rounds a percentage to one decimal; KV keeps the quotient.
Pct(k, n) == IF backend = "sqlite" THEN RoundPct1(k, n) ELSE Rat(100 * k, n)

IsPositive(m) == m.sentiment_score >= PositiveFrom

\* Variant of IsNeutral that leaves the score 4.0 out.
IsNeutralOpen(m) == m.sentiment_score > NegativeBelow /\ m.sentiment_score < PositiveFrom

IsNeutral(m) == m.sentiment_score >= NegativeBelow /\ m.sentiment_score < PositiveFrom

Count(I, P(_)) == Cardinality({i \in I : P(messages[i])})

SummaryRow(c) ==
  LET I == Rows(LAMBDA m : m.channel_id = c /\ InWindow(m, StreakWindowDays))
  IN [id |-> c,
      avg_sentiment |-> Avg(I),
      total_messages |-> Cardinality(I),
      active_users |-> Cardinality({messages[i].user_id : i \in I}),
      burnout_risk_percentage |-> Pct(Count(I, IsNegative), Cardinality(I))]

\* FROM channels c LEFT JOIN messages m ... WHERE m.timestamp >= ... keeps only
\* the registered channels that have a message in the window, as the KV loop
\* does with recentMessages.length > 0.  ORDER BY avg_sentiment ASC.
ChannelSummary ==
  LET ids == {c \in Range(channels) :
                Rows(LAMBDA m : m.channel_id = c /\ InWindow(m, StreakWindowDays)) # {}}
      Less(a, b) ==
        \/ RLt(a.avg_sentiment, b.avg_sentiment)
        \/ REq(a.avg_sentiment, b.avg_sentiment) /\ a.id < b.id
  IN SortSet({SummaryRow(c) : c \in ids}, Less)

\* The rows getDailyMoodTrends aggregates: every message (SQLite), the
\* messages of the registered channels (KV), inside the window.
MoodRows(days) ==
  Rows(LAMBDA m : /\ InWindow(m, days)
                  /\ (backend = "kv" => m.channel_id \in Range(channels)))

DailyMoodRow(d, days) ==
  LET I == {i \in MoodRows(days) : messages[i].day = d}
      n == Cardinality(I)
  IN [date |-> d,
      overall_mood |-> Avg(I),
      total_messages |-> n,
      active_channels |-> Cardinality({messages[i].channel_id : i \in I}),
      active_users |-> Cardinality({messages[i].user_id : i \in I}),
      positive_percentage |-> Pct(Count(I, IsPositive), n),
      negative_percentage |-> Pct(Count(I, IsNegative), n),
      neutral_percentage |-> Pct(Count(I, IsNeutral), n)]

DailyMoodTrends(days) ==
  LET dates == {messages[i].day : i \in MoodRows(days)}
      Less(a, b) == a.date < b.date
  IN SortSet({DailyMoodRow(d, days) : d \in dates}, Less)

(***************************************************************************)
(* getChannelSentimentTrend, both backends: the messages of one channel,  *)
(* registered or not, by date.                                             *)
(***************************************************************************)
\* ROUND(k * 100.0 / n, 2), a percentage with two decimals.
RoundPct2(k, n) == Rat((20000 * k + n) \div (2 * n), 100)

ChannelTrendRows(c, days) ==
  Rows(LAMBDA m : m.channel_id = c /\ InWindow(m, days))

ChannelTrendRow(c, d, days) ==
  LET I == {i \in ChannelTrendRows(c, days) : messages[i].day = d}
      n == Cardinality(I)
      scores == {messages[i].sentiment_score : i \in I}
  IN [date |-> d,
      avg_sentiment |-> Avg(I),
      message_count |-> n,
      active_users |-> Cardinality({messages[i].user_id : i \in I}),
      min_sentiment |-> CHOOSE x \in scores : \A y \in scores : x <= y,
      max_sentiment |-> CHOOSE x \in scores : \A y \in scores : x >= y,
      negative_percentage |->
        IF backend = "sqlite" THEN RoundPct2(Count(I, IsNegative), n)
        ELSE Rat(100 * Count(I, IsNegative), n)]

\* Variant of ChannelSentimentTrend that returns the buckets latest first.
ChannelSentimentTrendLatestFirst(c, days) ==
  LET dates == {messages[i].day : i \in ChannelTrendRows(c, days)}
      Less(a, b) == a.date > b.date
  IN SortSet({ChannelTrendRow(c, d, days) : d \in dates}, Less)

ChannelSentimentTrend(c, days) ==
  LET dates == {messages[i].day : i \in ChannelTrendRows(c, days)}
      Less(a, b) == a.date < b.date
  IN SortSet({ChannelTrendRow(c, d, days) : d \in dates}, Less)

(***************************************************************************)
(* getWeeklyMoodTrends, both backends.  Day 0 is a Sunday, so the weekday *)
(* of day d (0 = Sunday, as Date.getDay() numbers it) is d % 7, for the   *)
(* days d >= 0 that the weekly stores use; the dates of a store lie in    *)
(* one calendar year, and the server runs in UTC.                         *)
(***************************************************************************)
DaysPerWeek == 7

Weekday(d) == d % DaysPerWeek

\* weekStart.setDate(date.getDate() - date.getDay()): the Sunday on or before d.
KvWeekStart(d) == d - Weekday(d)

\* DATE(timestamp, 'weekday 0', '-6 days'): forward to the first Sunday on or
\* after d, then six days back: the Monday on or before d.
SqliteWeekStart(d) ==
  LET sunday == d + ((DaysPerWeek - Weekday(d)) % DaysPerWeek)
  IN sunday - (DaysPerWeek - 1)

\* strftime('%Y-%W', timestamp): %W numbers the weeks of a year from Monday to
\* Sunday, so within a year two dates have one key iff they share the Monday.
SqliteWeekKey(d) == SqliteWeekStart(d)

WeekKey(d) == IF backend = "sqlite" THEN SqliteWeekKey(d) ELSE KvWeekStart(d)

\* ROUND(x, 2) of a non-negative x.
Round2(x) == Rat((200 * x.num + x.den) \div (2 * x.den), 100)

WeeklyRows(weeks) == MoodRows(weeks * DaysPerWeek)

WeeklyMoodRow(k, weeks) ==
  LET I == {i \in WeeklyRows(weeks) : WeekKey(messages[i].day) = k}
      n == Cardinality(I)
  IN [week |-> k,
      week_start |-> k,
      weekly_mood |-> Avg(I),
      total_messages |-> n,
      unique_contributors |-> Cardinality({messages[i].user_id : i \in I}),
      avg_sentiment |-> IF backend = "sqlite" THEN Round2(Avg(I)) ELSE Avg(I),
      burnout_risk_percentage |-> Pct(Count(I, IsNegative), n)]

WeeklyMoodTrends(weeks) ==
  LET keys == {WeekKey(messages[i].day) : i \in WeeklyRows(weeks)}
      Less(a, b) == a.week_start < b.week_start
  IN SortSet({WeeklyMoodRow(k, weeks) : k \in keys}, Less)

(***************************************************************************)
(* POST /api/alerts: the alerts and insights it builds.                   *)
(***************************************************************************)
CriticalAlert(risk) ==
  [channel_id |-> risk.channel_id,
   alert_type |-> "burnout_critical",
   severity |-> "critical",
   sentiment_score |-> risk.avg_sentiment_in_streak]

TrendAlert(trend) ==
  [channel_id |-> trend.channel_id,
   alert_type |-> "declining_trend",
   severity |-> "warning",
   sentiment_score |-> trend.avg_sentiment]

LowSentimentAlert(channel) ==
  [channel_id |-> channel.id,
   alert_type |-> "low_sentiment",
   severity |-> "high",
   sentiment_score |-> channel.avg_sentiment]

ModerateAlert(channel) ==
  [channel_id |-> channel.id,
   alert_type |-> "moderate_concern",
   severity |-> "medium",
   sentiment_score |-> channel.avg_sentiment]

\* alerts.find(a => a.channel_id === channelId)
HasAlert(list, id) == \E i \in DOMAIN list : list[i].channel_id = id

\* Variant of StreakAlerts that passes over a channel with a stored alert.
StreakAlertsUnlessStored(risks) ==
  LET NotStored(risk) == \A k \in DOMAIN alerts : alerts[k].channel_id # risk.channel_id
      rows == SelectSeq(risks.consecutive_low_channels, NotStored)
  IN [i \in DOMAIN rows |-> CriticalAlert(rows[i])]

\* The first loop pushes one alert per row of consecutive_low_channels.
StreakAlerts(risks) ==
  [i \in DOMAIN risks.consecutive_low_channels |->
     CriticalAlert(risks.consecutive_low_channels[i])]

\* The second loop pushes one alert per row of declining_trend_channels.
DecliningAlerts(list, risks) ==
  list \o [i \in DOMAIN risks.declining_trend_channels |->
             TrendAlert(risks.declining_trend_channels[i])]

\* The last loop, over the channel summary in its order.
RECURSIVE ThresholdAlerts(_, _)
ThresholdAlerts(list, summary) ==
  IF summary = <<>> THEN list
  ELSE LET channel == Head(summary)
           next ==
             IF /\ RLt(channel.avg_sentiment, RInt(LowSentimentBelow))
                /\ ~HasAlert(list, channel.id)
               THEN Append(list, LowSentimentAlert(channel))
             ELSE IF /\ RLt(channel.avg_sentiment, RInt(ModerateBelow))
                     /\ ~HasAlert(list, channel.id)
               THEN Append(list, ModerateAlert(channel))
             ELSE list
       IN ThresholdAlerts(next, Tail(summary))

BuildAlerts(risks, summary) ==
  ThresholdAlerts(DecliningAlerts(StreakAlerts(risks), risks), summary)

UserInsight(user) ==
  [type |-> "individual_risk",
   severity |-> IF RLt(user.avg_sentiment, RInt(CriticalUserBelow))
                  THEN "critical" ELSE "warning",
   user_id |-> user.user_id,
   avg_sentiment |-> user.avg_sentiment,
   negative_percentage |-> user.negative_message_percentage,
   channels_active |-> user.channels_active]

\* Variant of BuildInsights that lists the users from the highest mean down.
BuildInsightsDescending(risks) ==
  [i \in DOMAIN risks.at_risk_users |->
     UserInsight(risks.at_risk_users[Len(risks.at_risk_users) + 1 - i])]

BuildInsights(risks) ==
  [i \in DOMAIN risks.at_risk_users |-> UserInsight(risks.at_risk_users[i])]

\* Variant of StoredAlert that saves the alert under another type.
StoredAlertLowSentiment(risk) ==
  [channel_id |-> risk.channel_id,
   alert_type |-> "low_sentiment",
   is_resolved |-> FALSE]

\* Variant of StoredAlert that saves the alert as resolved.
StoredAlertResolved(risk) ==
  [channel_id |-> risk.channel_id,
   alert_type |-> "burnout_critical",
   is_resolved |-> TRUE]

\* saveAlert: a new row, unresolved (is_resolved BOOLEAN DEFAULT 0 in SQLite,
\* is_resolved: false in KV).
StoredAlert(risk) ==
  [channel_id |-> risk.channel_id,
   alert_type |-> "burnout_critical",
   is_resolved |-> FALSE]

NoRisks ==
  [consecutive_low_channels |-> <<>>,
   declining_trend_channels |-> <<>>,
   at_risk_users |-> <<>>]

\* proc is the position of a handler or of the page between two of its steps;
\* Idle when none is in flight.
Idle == [kind |-> "idle"]

\* The arguments of the last call, where it has any.
NoArgs == [channel |-> 0, days |-> 0]

\* summary of POST /api/alerts.
NoSummary ==
  [critical_alerts |-> 0, warning_alerts |-> 0, individual_risks |-> 0,
   channels_analyzed |-> 0]

\* A null weekly_insight (weekly_comparison, channel) of a response.
Null == [type |-> "null"]

\* status is the HTTP status of a route; fetched is what Slack returned to a
\* collection and processed the length of its processedMessages.
NoResp ==
  [op |-> "none", args |-> NoArgs, risks |-> NoRisks, alerts |-> <<>>,
   insights |-> <<>>, rows |-> <<>>, status |-> 200, fetched |-> <<>>,
   processed |-> 0, summary |-> NoSummary, weekly_insight |-> Null,
   dashboard |-> Null]

(***************************************************************************)
(* Operations.                                                             *)
(***************************************************************************)
MaxAlerts == 2

\* POST /api/alerts asks for 4 weeks, GET /api/dashboard for 8.
WeeksAlerts == 4

DetectBurnoutRisks ==
  /\ resp' = [NoResp EXCEPT !.op = "detectBurnoutRisks",
                            !.risks = DetectBurnoutRisksResult]
  /\ UNCHANGED <<backend, channels, messages, alerts, now, proc>>

GetDailyMoodTrends ==
  \E days \in {DailyTrendDaysAlerts, 2 * DailyTrendDaysAlerts} :
    /\ resp' = [NoResp EXCEPT !.op = "getDailyMoodTrends",
                              !.args = [channel |-> 0, days |-> days],
                              !.rows = DailyMoodTrends(days)]
    /\ UNCHANGED <<backend, channels, messages, alerts, now, proc>>

\* The channel ids a caller may ask about.
ChannelIds == {1, 2}

GetChannelSentimentTrend ==
  \E c \in ChannelIds :
    /\ resp' = [NoResp EXCEPT !.op = "getChannelSentimentTrend",
                              !.args = [channel |-> c, days |-> StreakWindowDays],
                              !.rows = ChannelSentimentTrend(c, StreakWindowDays)]
    /\ UNCHANGED <<backend, channels, messages, alerts, now, proc>>

GetWeeklyMoodTrends ==
  \E weeks \in {WeeksAlerts, 2 * WeeksAlerts} :
    /\ resp' = [NoResp EXCEPT !.op = "getWeeklyMoodTrends",
                              !.args = [channel |-> 0, days |-> weeks * DaysPerWeek],
                              !.rows = WeeklyMoodTrends(weeks)]
    /\ UNCHANGED <<backend, channels, messages, alerts, now, proc>>

\* alerts.filter(a => a.severity === ...).length
SeverityCount(as, sev) == Cardinality({i \in DOMAIN as : as[i].severity \in sev})

AlertsSummary(as, risks, summary) ==
  [critical_alerts |-> SeverityCount(as, {"critical"}),
   warning_alerts |-> SeverityCount(as, {"warning", "high"}),
   individual_risks |-> Len(risks.at_risk_users),
   channels_analyzed |-> Len(summary)]

\* weekly_mood of the last week > weekly_mood of the week before.
WeeklyImproving(weekly) ==
  RLt(weekly[Len(weekly) - 1].weekly_mood, weekly[Len(weekly)].weekly_mood)

\* generateExecutiveSummary: the lines of the text, as the values that decide
\* them.
ExecutiveSummary(as, weekly) ==
  [critical |-> SeverityCount(as, {"critical"}),
   warning |-> SeverityCount(as, {"warning", "high"}),
   weekly_trend |-> IF Len(weekly) > 1
                      THEN IF WeeklyImproving(weekly) THEN "Improving" ELSE "Declining"
                      ELSE "none"]

WeeklyInsight(as, weekly) ==
  IF Len(weekly) > 0
    THEN [type |-> "weekly_summary",
          current_week_mood |-> weekly[Len(weekly)].weekly_mood,
          trend_direction |-> IF Len(weekly) > 1
                                THEN IF WeeklyImproving(weekly)
                                       THEN "improving" ELSE "declining"
                                ELSE "stable",
          total_contributors |-> weekly[Len(weekly)].unique_contributors,
          executive_summary |-> ExecutiveSummary(as, weekly)]
    ELSE Null

PostAlerts ==
  LET risks == DetectBurnoutRisksResult
      built == BuildAlerts(risks, ChannelSummary)
      saved == [i \in DOMAIN risks.consecutive_low_channels |->
                  StoredAlert(risks.consecutive_low_channels[i])]
  IN /\ Len(alerts) < MaxAlerts
     /\ alerts' = alerts \o saved
     /\ resp' = [NoResp EXCEPT !.op = "postAlerts",
                               !.risks = risks,
                               !.alerts = built,
                               !.insights = BuildInsights(risks),
                               !.summary = AlertsSummary(built, risks, ChannelSummary),
                               !.weekly_insight =
                                 WeeklyInsight(built, WeeklyMoodTrends(WeeksAlerts))]
     /\ UNCHANGED <<backend, channels, messages, now, proc>>

\* getAlerts(channelId?): the unresolved alerts, of one channel if asked.  The
\* model keeps no created_at, so the order of the result is left open.
UnresolvedAlerts(c) ==
  LET Kept(a) == ~a.is_resolved /\ (c # 0 => a.channel_id = c)
  IN SelectSeq(alerts, Kept)

Orders(u) ==
  {[i \in DOMAIN u |-> u[p[i]]] :
     p \in {q \in [DOMAIN u -> DOMAIN u] : \A i, j \in DOMAIN u : q[i] = q[j] => i = j}}

\* GET /api/alerts calls getAlerts(); channel 0 stands for no channelId.
GetAlerts ==
  \E c \in {0} \cup ChannelIds : \E rows \in Orders(UnresolvedAlerts(c)) :
    /\ resp' = [NoResp EXCEPT !.op = "getAlerts",
                              !.args = [channel |-> c, days |-> 0],
                              !.rows = rows]
    /\ UNCHANGED <<backend, channels, messages, alerts, now, proc>>

(***************************************************************************)
(* GET /api/dashboard.                                                     *)
(***************************************************************************)
\* x.toFixed(k) for scale = 10^k: to the nearest, halves away from zero.
ToFixed(x, scale) ==
  LET q == (2 * Abs(x.num) * scale + x.den) \div (2 * x.den)
  IN Rat(IF x.num < 0 THEN -q ELSE q, scale)

HealthGood == 65

HealthFair == 45

TopChannels == 3

RecentLimit == 10

RecentShown == 5

TrendChangeLimit == 2

\* channelSummary.reduce(...) / channelSummary.length, 0 for no channel.
MeanOver(summary, Field(_)) ==
  IF Len(summary) > 0
    THEN RMul(RSum([i \in DOMAIN summary |-> Field(summary[i])], DOMAIN summary),
              Rat(1, Len(summary)))
    ELSE RInt(0)

SentimentCategory(avg) ==
  IF RLe(RInt(PositiveFrom), avg) THEN "positive"
  ELSE IF RLe(RInt(NegativeBelow), avg) THEN "neutral"
  ELSE "negative"

DashboardSummary(summary) ==
  LET avgSentiment == MeanOver(summary, LAMBDA c : c.avg_sentiment)
      avgBurnoutRisk == MeanOver(summary, LAMBDA c : c.burnout_risk_percentage)
  IN [total_channels |-> Len(summary),
      total_messages |->
        FSum([i \in DOMAIN summary |-> summary[i].total_messages], DOMAIN summary),
      total_active_users |->
        FSum([i \in DOMAIN summary |-> summary[i].active_users], DOMAIN summary),
      avg_sentiment_all_channels |-> ToFixed(avgSentiment, 100),
      avg_burnout_risk |-> ToFixed(avgBurnoutRisk, 10),
      sentiment_health |->
        IF RLe(RInt(HealthGood), avgSentiment) THEN "good"
        ELSE IF RLe(RInt(HealthFair), avgSentiment) THEN "fair"
        ELSE "concerning"]

DashboardChannels(summary) ==
  [i \in DOMAIN summary |->
     [id |-> summary[i].id,
      avg_sentiment |-> summary[i].avg_sentiment,
      total_messages |-> summary[i].total_messages,
      active_users |-> summary[i].active_users,
      burnout_risk_percentage |-> summary[i].burnout_risk_percentage,
      sentiment_category |-> SentimentCategory(summary[i].avg_sentiment)]]

\* getChannelSentimentTrend(channel.id, 7) for channelSummary.slice(0, 3).
ChannelTrends(summary) ==
  [i \in 1..(IF Len(summary) < TopChannels THEN Len(summary) ELSE TopChannels) |->
     [channel_id |-> summary[i].id,
      trend_data |-> ChannelSentimentTrend(summary[i].id, StreakWindowDays)]]

SentimentDistribution(summary) ==
  [positive |-> Cardinality({i \in DOMAIN summary :
                              SentimentCategory(summary[i].avg_sentiment) = "positive"}),
   neutral |-> Cardinality({i \in DOMAIN summary :
                             SentimentCategory(summary[i].avg_sentiment) = "neutral"}),
   negative |-> Cardinality({i \in DOMAIN summary :
                              SentimentCategory(summary[i].avg_sentiment) = "negative"})]

WeeklyComparison(weekly) ==
  IF Len(weekly) > 1
    THEN LET cur == weekly[Len(weekly)].weekly_mood
             prev == weekly[Len(weekly) - 1].weekly_mood
         IN [type |-> "weekly_comparison",
             current_week |-> cur,
             previous_week |-> prev,
             change_percentage |->
               ToFixed(RMul(RSub(cur, prev), Rat(100 * prev.den, prev.num)), 10)]
    ELSE Null

\* reduce(...) keeps the first channel that no later one beats.
TopPerformingChannel(summary) ==
  IF Len(summary) > 0
    THEN summary[CHOOSE i \in DOMAIN summary :
                   /\ \A j \in DOMAIN summary :
                        RLe(summary[j].avg_sentiment, summary[i].avg_sentiment)
                   /\ \A j \in 1..(i - 1) :
                        RLt(summary[j].avg_sentiment, summary[i].avg_sentiment)]
    ELSE Null

MostConcerningChannel(summary) ==
  IF Len(summary) > 0
    THEN summary[CHOOSE i \in DOMAIN summary :
                   /\ \A j \in DOMAIN summary :
                        RLe(summary[i].avg_sentiment, summary[j].avg_sentiment)
                   /\ \A j \in 1..(i - 1) :
                        RLt(summary[i].avg_sentiment, summary[j].avg_sentiment)]
    ELSE Null

\* Variant of TrendDirection that reads a missing comparison as a decline.
TrendDirectionOfNull(comparison) ==
  IF comparison # Null
    THEN IF RLt(RInt(TrendChangeLimit), comparison.change_percentage) THEN "improving"
         ELSE "stable"
    ELSE "declining"

TrendDirection(comparison) ==
  IF comparison # Null
    THEN IF RLt(RInt(TrendChangeLimit), comparison.change_percentage) THEN "improving"
         ELSE IF RLt(comparison.change_percentage, RInt(-TrendChangeLimit))
                THEN "declining"
         ELSE "stable"
    ELSE "stable"

\* getMessages(undefined, limit): every message (SQLite), the messages of the
\* registered channels (KV), latest first.
RecentMessages(limit) ==
  LET I == Rows(LAMBDA m : backend = "kv" => m.channel_id \in Range(channels))
      Later(i, j) ==
        \/ messages[i].day > messages[j].day
        \/ messages[i].day = messages[j].day /\ messages[i].tod > messages[j].tod
        \/ messages[i].day = messages[j].day /\ messages[i].tod = messages[j].tod /\ i < j
      sorted == SortSet(I, Later)
  IN SubSeq(sorted, 1, IF Len(sorted) < limit THEN Len(sorted) ELSE limit)

RecentActivity ==
  LET recent == RecentMessages(RecentLimit)
  IN [k \in 1..(IF Len(recent) < RecentShown THEN Len(recent) ELSE RecentShown) |->
        [channel_id |-> messages[recent[k]].channel_id,
         sentiment_score |-> messages[recent[k]].sentiment_score,
         sentiment_label |-> SentimentCategory(RInt(messages[recent[k]].sentiment_score))]]

GetDashboard ==
  LET summary == ChannelSummary
      weekly == WeeklyMoodTrends(2 * WeeksAlerts)
      comparison == WeeklyComparison(weekly)
  IN /\ resp' = [NoResp EXCEPT
                   !.op = "getDashboard",
                   !.dashboard =
                     [summary |-> DashboardSummary(summary),
                      channels |-> DashboardChannels(summary),
                      daily_trends |-> DailyMoodTrends(2 * DailyTrendDaysAlerts),
                      weekly_trends |-> weekly,
                      channel_trends |-> ChannelTrends(summary),
                      sentiment_distribution |-> SentimentDistribution(summary),
                      weekly_comparison |-> comparison,
                      insights |->
                        [top_performing_channel |-> TopPerformingChannel(summary),
                         most_concerning_channel |-> MostConcerningChannel(summary),
                         trend_direction |-> TrendDirection(comparison)],
                      recent_activity |-> RecentActivity]]
     /\ UNCHANGED <<backend, channels, messages, alerts, now, proc>>

(***************************************************************************)
(* POST /api/slack/messages: collection.  A fetched message is            *)
(* [user, day, complete, reactions]: complete says that it has text, user *)
(* and ts; a reaction is [name, count], count 0 standing for a missing    *)
(* count.  Emoji values are on the 1..10 scale, scores in tenths.         *)
(***************************************************************************)
\* Some entries of emojiMap.
EmojiMap ==
  [e \in {"joy", "thumbsup", "thinking_face", "x", "sob"} |->
     CASE e = "joy" -> 10
       [] e = "thumbsup" -> 8
       [] e = "thinking_face" -> 5
       [] e = "x" -> 2
       [] e = "sob" -> 1]

\* emojiMap is an object literal, so emojiMap[emoji] also finds the properties
\* it inherits from Object.prototype: a function or an object, which is truthy
\* and is returned as it is.  These two are legal names of custom emoji.
InheritedKeys == {"constructor", "__proto__"}

UnknownEmojiValue == 5

\* getEmojiSentiment(emoji) returns a number exactly for these names.
EmojiIsNumber(e) == e \notin InheritedKeys

\* return emojiMap[emoji] || 5, where it is a number.
GetEmojiSentiment(e) ==
  IF e \in DOMAIN EmojiMap THEN EmojiMap[e] ELSE UnknownEmojiValue

\* const count = reaction.count || 1
ReactionWeight(r) == IF r.count = 0 THEN 1 ELSE r.count

\* reactionCount after the loop over message.reactions.
ReactionCount(rs) == FSum([j \in DOMAIN rs |-> ReactionWeight(rs[j])], DOMAIN rs)

\* reactionSentimentSum is NaN once a non-number was multiplied into it.
ReactionSumIsNaN(rs) == \E j \in DOMAIN rs : ~EmojiIsNumber(rs[j].name)

ReactionSentimentSum(rs) ==
  FSum([j \in DOMAIN rs |-> GetEmojiSentiment(rs[j].name) * ReactionWeight(rs[j])],
       DOMAIN rs)

\* sentiment_score: 5.0, the placeholder of every saved message.
PlaceholderScore == 50

TextWeight == 7

EmojiWeight == 3

\* (messageData.sentiment_score * 0.7) + (avgReactionSentiment * 0.3), in tenths.
CombinedSentiment(rs) ==
  RAdd(Rat(TextWeight * PlaceholderScore, 10),
       Rat(EmojiWeight * 10 * ReactionSentimentSum(rs), 10 * ReactionCount(rs)))

\* The score the message has in the store after its turn of the loop.  The
\* UPDATE goes through the route's own sqlite3 handle on ./sentiment.db: that
\* is the store of the SQLite backend and no part of the KV store.
StoredScore(f) ==
  IF ReactionCount(f.reactions) = 0 \/ backend = "kv"
    THEN PlaceholderScore
    ELSE IF ReactionSumIsNaN(f.reactions)
           THEN NullScore
           ELSE CombinedSentiment(f.reactions).num

SavedMessage(c, f) ==
  [channel_id |-> c, user_id |-> f.user, day |-> f.day, tod |-> 1,
   sentiment_score |-> StoredScore(f)]

\* In the KV deployment the UPDATE runs against a local file that the
\* application never initialised; updateOk says whether it is accepted there.
\* If it is not, dbRun rejects and the handler leaves the loop for its catch.
Aborts(f, updateOk) ==
  backend = "kv" /\ ReactionCount(f.reactions) > 0 /\ ~updateOk

\* The messages the loop over allMessagesWithThreads saves, in order.
RECURSIVE Collected(_, _, _)
Collected(batch, c, updateOk) ==
  IF batch = <<>> THEN <<>>
  ELSE LET f == Head(batch)
       IN IF ~f.complete THEN Collected(Tail(batch), c, updateOk)
          ELSE IF Aborts(f, updateOk) THEN <<SavedMessage(c, f)>>
          ELSE <<SavedMessage(c, f)>> \o Collected(Tail(batch), c, updateOk)

CollectionAborts(batch, updateOk) ==
  \E j \in DOMAIN batch : batch[j].complete /\ Aborts(batch[j], updateOk)

\* What Slack returns: the reaction lists are chosen so that every combined
\* score is a whole number of tenths, the unit of the stored scores.
ReactionLists ==
  {<<>>,
   <<[name |-> "joy", count |-> 1]>>,
   <<[name |-> "party_parrot", count |-> 0]>>,
   <<[name |-> "sob", count |-> 1], [name |-> "x", count |-> 2]>>,
   <<[name |-> "constructor", count |-> 1]>>,
   <<[name |-> "thumbsup", count |-> 1], [name |-> "__proto__", count |-> 1]>>}

MaxBatch == 2

MaxStore == 2

\* Messages with text, user and ts, and one message without text.
FetchedMessages ==
  [user : {1}, day : {now.day}, complete : {TRUE}, reactions : ReactionLists]
    \cup {[user |-> 1, day |-> now.day, complete |-> FALSE, reactions |-> <<>>]}

Batches == UNION {[1..n -> FetchedMessages] : n \in 1..MaxBatch}

CollectMessages ==
  \E c \in ChannelIds, updateOk \in IF backend = "kv" THEN BOOLEAN ELSE {TRUE},
     batch \in Batches :
    LET saved == Collected(batch, c, updateOk)
    IN /\ Len(messages) + Len(saved) <= MaxStore
       /\ messages' = messages \o saved
       /\ resp' = [NoResp EXCEPT !.op = "collectMessages",
                                 !.args = [channel |-> c, days |-> StreakWindowDays],
                                 !.status = IF CollectionAborts(batch, updateOk)
                                              THEN 500 ELSE 200,
                                 !.fetched = batch,
                                 !.processed = Len(saved)]
       /\ UNCHANGED <<backend, channels, alerts, now, proc>>

(***************************************************************************)
(* POST /api/sentiment/analyze.  The model's answer for a message is      *)
(* drawn from a few values, in tenths, 0 standing for an invalid answer;  *)
(* the route reports the scores and writes nothing to the store.          *)
(***************************************************************************)
ModelAnswers == {0, 10, 100}

\* message.sentiment_score && message.sentiment_score !== 5.0 && !reanalyze
AlreadyAnalyzedAlways(m, reanalyze) ==
  /\ m.sentiment_score # NullScore
  /\ m.sentiment_score # 0
  /\ m.sentiment_score # PlaceholderScore

AlreadyAnalyzed(m, reanalyze) ==
  /\ m.sentiment_score # NullScore
  /\ m.sentiment_score # 0
  /\ m.sentiment_score # PlaceholderScore
  /\ ~reanalyze

AnalyzedMessage(i, answer, reanalyze) ==
  IF AlreadyAnalyzed(messages[i], reanalyze)
    THEN [id |-> i, sentiment_score |-> messages[i].sentiment_score,
          status |-> "skipped"]
    ELSE IF answer = 0
           THEN [id |-> i, sentiment_score |-> PlaceholderScore,
                 status |-> "error_invalid_score"]
           ELSE [id |-> i, sentiment_score |-> answer, status |-> "analyzed"]

AnalyzeSentiment ==
  \E answer \in ModelAnswers, reanalyze \in BOOLEAN :
    /\ resp' = IF messages = <<>>
                 THEN [NoResp EXCEPT !.op = "analyzeSentiment", !.status = 404]
                 ELSE [NoResp EXCEPT
                         !.op = "analyzeSentiment",
                         !.rows = [i \in DOMAIN messages |->
                                     AnalyzedMessage(i, answer, reanalyze)]]
    /\ UNCHANGED <<backend, channels, messages, alerts, now, proc>>

(***************************************************************************)
(* Initial stores.  A store is built from day profiles: the               *)
(* scores of the messages one user posts in one channel on one day.       *)
(***************************************************************************)
Backends == {"sqlite", "kv"}

\* The last date of the 7-day window when the first date is day 1.
LastDay == StreakWindowDays + 1

MessagesOfDay(c, u, d, t, scores) ==
  [j \in DOMAIN scores |->
     [channel_id |-> c, user_id |-> u, day |-> d, tod |-> t,
      sentiment_score |-> scores[j]]]

\* f maps each day of its domain 1..n to the scores posted that day.
MessagesOfDays(c, u, t, f) ==
  Flatten([d \in DOMAIN f |-> MessagesOfDay(c, u, d, t, f[d])])

(***************************************************************************)
(* Streak detection on one channel: every day of the window is absent,    *)
(* or has one message, scored 5.0 or low: 3.0 in the first half of the    *)
(* window, 2.0 in the second.                                              *)
(***************************************************************************)
StreakDayKinds(d) ==
  IF 2 * d <= LastDay THEN {<<>>, <<30>>, <<50>>} ELSE {<<>>, <<20>>, <<50>>}

StreakProfiles ==
  {f \in [1..LastDay -> {<<>>, <<20>>, <<30>>, <<50>>}] :
     \A d \in 1..LastDay : f[d] \in StreakDayKinds(d)}

InitStreak ==
  /\ backend \in Backends
  /\ channels = <<1>>
  /\ \E f \in StreakProfiles : messages = MessagesOfDays(1, 1, 1, f)
  /\ alerts = <<>>
  /\ now = [day |-> LastDay, tod |-> 1]
  /\ resp = NoResp
  /\ proc = Idle

NextStreak == DetectBurnoutRisks

SpecStreak == InitStreak /\ [][NextStreak]_vars

\* The daily buckets of a channel in the 7-day window, and the low ones.
BucketDays(c) ==
  {messages[i].day :
     i \in Rows(LAMBDA m : m.channel_id = c /\ InWindow(m, StreakWindowDays))}

BucketMean(c, d) ==
  Avg(Rows(LAMBDA m : m.channel_id = c /\ m.day = d /\ InWindow(m, StreakWindowDays)))

BucketLow(c, d) == RLt(BucketMean(c, d), RInt(StreakThreshold))

\* lo..hi is a maximal run of consecutive low buckets of the bucket sequence.
MaximalLowRun(c, lo, hi) ==
  LET B == BucketDays(c)
  IN /\ lo \in B /\ hi \in B /\ lo <= hi
     /\ \A d \in B : (lo <= d /\ d <= hi) => BucketLow(c, d)
     /\ \A d \in B : (d < lo /\ ~\E e \in B : d < e /\ e < lo) => ~BucketLow(c, d)
     /\ \A d \in B : (d > hi /\ ~\E e \in B : hi < e /\ e < d) => ~BucketLow(c, d)

RunRow(c, lo, hi) ==
  LET D == {d \in BucketDays(c) : lo <= d /\ d <= hi}
  IN [channel_id |-> c,
      streak_start |-> lo,
      streak_end |-> hi,
      consecutive_days |-> Cardinality(D),
      avg_sentiment_in_streak |->
        RMul(RSum([d \in D |-> BucketMean(c, d)], D), Rat(1, Cardinality(D)))]

ExpectedStreaks ==
  LET runs == {r \in MessageChannels \X (1..LastDay) \X (1..LastDay) :
                 /\ MaximalLowRun(r[1], r[2], r[3])
                 /\ Cardinality({d \in BucketDays(r[1]) : r[2] <= d /\ d <= r[3]})
                      >= MinStreakDays}
  IN {RunRow(r[1], r[2], r[3]) : r \in runs}

DetectDone == resp.op = "detectBurnoutRisks"

\* C3: streak detection returns one streak per maximal run of at least three
\* consecutive low daily buckets, so a bucket with mean >= 4.0 separates the
\* runs on its two sides; on the daily means [3,3,3,5,2,2,2,2] it returns a
\* streak of days 1-3 with mean 3 and a streak of days 5-8 with mean 2.
C3_OneStreakPerMaximalRun ==
  DetectDone =>
    /\ Range(resp.risks.consecutive_low_channels) = ExpectedStreaks
    /\ Len(resp.risks.consecutive_low_channels) = Cardinality(ExpectedStreaks)
    /\ (messages = MessagesOfDays(1, 1, 1,
                     <<<<30>>, <<30>>, <<30>>, <<50>>, <<20>>, <<20>>, <<20>>, <<20>>>>)
          => Range(resp.risks.consecutive_low_channels) =
               {[channel_id |-> 1, streak_start |-> 1, streak_end |-> 3,
                 consecutive_days |-> 3, avg_sentiment_in_streak |-> RInt(30)],
                [channel_id |-> 1, streak_start |-> 5, streak_end |-> 8,
                 consecutive_days |-> 4, avg_sentiment_in_streak |-> RInt(20)]})

\* C4: when the low days of a channel are two adjacent days, a day without any
\* message, and two more adjacent days, no streak is reported for the channel.
TwoGapTwo(c) ==
  \E d \in 1..LastDay :
    /\ {e \in BucketDays(c) : BucketLow(c, e)} = {d, d + 1, d + 3, d + 4}
    /\ d + 2 \notin BucketDays(c)

C4_GapBreaksStreak ==
  DetectDone =>
    \A c \in MessageChannels :
      TwoGapTwo(c) =>
        ~\E i \in DOMAIN resp.risks.consecutive_low_channels :
           resp.risks.consecutive_low_channels[i].channel_id = c

\* C5: every returned streak covers at least three consecutive present daily
\* buckets from streak_start to streak_end, all of them with a mean below 4.0,
\* and consecutive_days is the number of those buckets.
C5_StreakRowsAreLowRuns ==
  DetectDone =>
    \A i \in DOMAIN resp.risks.consecutive_low_channels :
      LET row == resp.risks.consecutive_low_channels[i]
          D == {d \in BucketDays(row.channel_id) :
                  row.streak_start <= d /\ d <= row.streak_end}
      IN /\ row.streak_start \in D
         /\ row.streak_end \in D
         /\ Cardinality(D) >= MinStreakDays
         /\ \A d \in D : BucketLow(row.channel_id, d)
         /\ row.consecutive_days = Cardinality(D)

(***************************************************************************)
(* Trend analysis on one channel.  The dates of the 5-day window are      *)
(* FirstTrendDay..LastDay; the day before them always has messages.  A     *)
(* date has no message, fewer than three, or three; the daily means       *)
(* follow one of a few lines first + step * (date - FirstTrendDay).       *)
(***************************************************************************)
MaxPerDay == 3

FirstTrendDay == LastDay - TrendWindowDays

TrendShapes ==
  {[first |-> 20, step |-> 10], [first |-> 50, step |-> 0],
   [first |-> 63, step |-> -3], [first |-> 60, step |-> -10],
   [first |-> 90, step |-> -10]}

\* k scores around s: their mean is s when k >= 2.
ScoresAround(s, k) ==
  [j \in 1..k |-> IF j = 1 THEN s - 10 ELSE IF j = 2 THEN s + 10 ELSE s]

TrendProfile(shape, count) ==
  [d \in 1..LastDay |->
     IF d < FirstTrendDay - 1 THEN <<>>
     ELSE IF d = FirstTrendDay - 1 THEN ScoresAround(20, MaxPerDay)
     ELSE ScoresAround(shape.first + shape.step * (d - FirstTrendDay), count[d])]

InitTrend ==
  /\ backend \in Backends
  /\ channels = <<1>>
  /\ \E shape \in TrendShapes :
       \E count \in [FirstTrendDay..LastDay -> {0, MaxPerDay - 1, MaxPerDay}] :
         messages = MessagesOfDays(1, 1, 1, TrendProfile(shape, count))
  /\ alerts = <<>>
  /\ now = [day |-> LastDay, tod |-> 1]
  /\ resp = NoResp
  /\ proc = Idle

NextTrend == DetectBurnoutRisks

SpecTrend == InitTrend /\ [][NextTrend]_vars

\* The least-squares slope of the values ys against the indices x0, x0 + 1, ...
OlsSlope(ys, x0) ==
  LET I == DOMAIN ys
      n == Len(ys)
      x == [i \in I |-> x0 + i - 1]
      sxy == RSum([i \in I |-> RMul(RInt(x[i]), ys[i])], I)
      sx == FSum(x, I)
      sy == RSum(ys, I)
      sxx == FSum([i \in I |-> x[i] * x[i]], I)
  IN RMul(RSub(RMul(RInt(n), sxy), RMul(RInt(sx), sy)), Rat(1, n * sxx - sx * sx))

\* The daily means of channel c on the dates D of the 5-day window, by date.
MeansByDate(c, D) ==
  LET days == SortSet(D, LAMBDA a, b : a < b)
  IN [i \in DOMAIN days |->
        Avg({j \in DOMAIN messages :
               /\ messages[j].channel_id = c
               /\ messages[j].day = days[i]})]

IsConstant(ys) == \A i \in DOMAIN ys : ys[i] = ys[1]

\* C6: the trend slope is the least-squares slope of the daily means against
\* consecutive day indices in date order, the same whether the indices start
\* at 0 or at 1; it is 1 on the means [2,3,4,5,6] and 0 on a constant series of
\* at least three days; a returned row carries that slope.
C6_SlopeIsLeastSquares ==
  /\ \A row \in TrendAnalysis :
       LET ys == MeansByDate(row.channel_id, TrendDays(row.channel_id))
       IN /\ Len(ys) >= 2 =>
               /\ ~row.trend_slope.null
               /\ row.trend_slope.val = OlsSlope(ys, 0)
               /\ row.trend_slope.val = OlsSlope(ys, 1)
          /\ ys = <<RInt(20), RInt(30), RInt(40), RInt(50), RInt(60)>> =>
               row.trend_slope.val = RInt(10)
          /\ (Len(ys) >= MinTrendDays /\ IsConstant(ys)) =>
               row.trend_slope.val = RInt(0)
  /\ (DetectDone /\ backend = "sqlite") =>
       \A i \in DOMAIN resp.risks.declining_trend_channels :
         resp.risks.declining_trend_channels[i] \in TrendAnalysis

C6_Witness ==
  /\ DetectDone
  /\ backend = "sqlite"
  /\ \E row \in TrendAnalysis :
       /\ MeansByDate(row.channel_id, TrendDays(row.channel_id))
            = <<RInt(20), RInt(30), RInt(40), RInt(50), RInt(60)>>
       /\ row.trend_slope.val = RInt(10)

\* The trend rows the active backend works out (KV works out none).
TrendRows == IF backend = "sqlite" THEN TrendAnalysis ELSE {}

\* The dates of the 5-day window on which channel c has a message, and the
\* number of messages of one date.
TrendBuckets(c) ==
  {messages[i].day :
     i \in Rows(LAMBDA m : m.channel_id = c /\ InWindow(m, TrendWindowDays))}

BucketSize(c, d) ==
  Cardinality({i \in DOMAIN messages :
                 messages[i].channel_id = c /\ messages[i].day = d})

ReturnedDeclining ==
  {resp.risks.declining_trend_channels[i].channel_id :
     i \in DOMAIN resp.risks.declining_trend_channels}

UserProfiles ==
  {[neg |-> 4, rest |-> 6, restScore |-> 50],
   [neg |-> 2, rest |-> 8, restScore |-> 45],
   [neg |-> 3, rest |-> 7, restScore |-> 45],
   [neg |-> 5, rest |-> 5, restScore |-> 60],
   [neg |-> 4, rest |-> 6, restScore |-> 60],
   [neg |-> 1, rest |-> 0, restScore |-> 50],
   [neg |-> 61, rest |-> 142, restScore |-> 50]}

SmallUserProfiles ==
  {[neg |-> 0, rest |-> 0, restScore |-> 50],
   [neg |-> 4, rest |-> 6, restScore |-> 50],
   [neg |-> 0, rest |-> 2, restScore |-> 70],
   [neg |-> 2, rest |-> 1, restScore |-> 20]}

UserMessages(u, p, cRest) ==
  MessagesOfDay(1, u, LastDay, 0, [j \in 1..p.neg |-> 30])
    \o MessagesOfDay(cRest, u, LastDay, 0, [j \in 1..p.rest |-> p.restScore])

\* One more message of user u: none, one day before the window, or in the
\* morning of the cutoff date (inside the SQLite window, outside the KV one).
ExtraMessage(u, where) ==
  IF where = "none" THEN <<>>
  ELSE MessagesOfDay(1, u, IF where = "before" THEN 0 ELSE 1, 0, <<10>>)

InitUser ==
  /\ backend \in Backends
  /\ channels = <<1, 2>>
  /\ \E p1 \in UserProfiles, p2 \in SmallUserProfiles, cRest \in {1, 2},
        where \in {"none", "before", "cutoff"} :
       messages = UserMessages(1, p1, cRest) \o UserMessages(2, p2, 1)
                    \o ExtraMessage(2, where)
  /\ alerts = <<>>
  /\ now = [day |-> LastDay, tod |-> 1]
  /\ resp = NoResp
  /\ proc = Idle

NextUser == DetectBurnoutRisks

SpecUser == InitUser /\ [][NextUser]_vars

\* The messages of user u inside the 7-day window of the backend.
UserWindow(u) == Rows(LAMBDA m : m.user_id = u /\ InWindow(m, StreakWindowDays))

ReturnedUsers ==
  {resp.risks.at_risk_users[i].user_id : i \in DOMAIN resp.risks.at_risk_users}

\* C9: a user is in at_risk_users exactly when, over the user's messages of the
\* 7-day window, the mean sentiment is strictly below 4.5 and the share of
\* messages scored below 4 is strictly above 30 percent; channels_active is the
\* number of distinct channels the user posted in.
C9_AtRiskIffMeanAndShare ==
  DetectDone =>
    /\ \A u \in MessageUsers :
         LET I == UserWindow(u)
             n == Cardinality(I)
             k == Cardinality({i \in I : messages[i].sentiment_score < 40})
         IN u \in ReturnedUsers <=>
              /\ n >= 1
              /\ ScoreSum(I) < 45 * n
              /\ 100 * k > 30 * n
    /\ \A i \in DOMAIN resp.risks.at_risk_users :
         LET row == resp.risks.at_risk_users[i]
         IN row.channels_active =
              Cardinality({messages[j].channel_id : j \in UserWindow(row.user_id)})

(***************************************************************************)
(* Daily mood.  The last day holds up to MaxMood positive, neutral and    *)
(* negative messages, the first of each class on the edge of the class    *)
(* (7.0, 4.0 and 3.9); one older message lies inside the 14-day window    *)
(* and outside the 7-day one.                                              *)
(***************************************************************************)
MaxMood == 4

MoodScores(p, u, g) ==
  [j \in 1..p |-> IF j = 1 THEN 70 ELSE 90]
    \o [j \in 1..u |-> IF j = 1 THEN 40 ELSE 69]
    \o [j \in 1..g |-> IF j = 1 THEN 39 ELSE 10]

InitDaily ==
  /\ backend \in Backends
  /\ channels = <<1>>
  /\ \E p \in 0..MaxMood, u \in 0..MaxMood, g \in 0..MaxMood :
       messages = MessagesOfDay(1, 1, LastDay - StreakWindowDays - 3, 1, <<50>>)
                    \o MessagesOfDay(1, 1, LastDay, 0, MoodScores(p, u, g))
  /\ alerts = <<>>
  /\ now = [day |-> LastDay, tod |-> 1]
  /\ resp = NoResp
  /\ proc = Idle

NextDaily == GetDailyMoodTrends

SpecDaily == InitDaily /\ [][NextDaily]_vars

PctSum(row) ==
  RAdd(RAdd(row.positive_percentage, row.neutral_percentage), row.negative_percentage)

\* |a - b| <= 1/20: a is b rounded to one decimal, or b itself.
WithinHalfTenth(a, b) ==
  /\ RLe(RSub(a, b), Rat(1, 20))
  /\ RLe(RSub(b, a), Rat(1, 20))

AlertShapes ==
  {<<>>, <<30, 20, 10>>, <<38, 38, 38>>, <<65, 38, 38, 38>>, <<58, 53, 48>>,
   <<50, 50, 50>>, <<70, 70, 70>>}

ShapeMessages(c, shape, k) ==
  Flatten([j \in DOMAIN shape |->
             MessagesOfDay(c, c, LastDay - Len(shape) + j, 0,
                           [x \in 1..k |-> shape[j]])])

InitAlerts ==
  /\ backend \in Backends
  /\ channels = <<1, 2>>
  /\ \E s1 \in AlertShapes, s2 \in AlertShapes, k1 \in {1, MaxPerDay},
        k2 \in {1, MaxPerDay} :
       messages = ShapeMessages(1, s1, k1) \o ShapeMessages(2, s2, k2)
  /\ alerts = <<>>
  /\ now = [day |-> LastDay, tod |-> 1]
  /\ resp = NoResp
  /\ proc = Idle

NextAlerts == PostAlerts

SpecAlerts == InitAlerts /\ [][NextAlerts]_vars

AlertsDone == resp.op = "postAlerts"

AlertsOf(c) == {i \in DOMAIN resp.alerts : resp.alerts[i].channel_id = c}

HasStreak(c) ==
  \E i \in DOMAIN resp.risks.consecutive_low_channels :
    resp.risks.consecutive_low_channels[i].channel_id = c

\* The 7-day avg_sentiment of channel c is below 4.0.
LowAverage(c) ==
  LET I == Rows(LAMBDA m : m.channel_id = c /\ InWindow(m, StreakWindowDays))
  IN I # {} /\ ScoreSum(I) < 40 * Cardinality(I)

\* C1: in one run of POST /api/alerts the returned alerts hold at most one
\* alert per channel id, whatever signals the channel has.
C1_OneAlertPerChannel ==
  AlertsDone => \A c \in Range(channels) : Cardinality(AlertsOf(c)) <= 1

\* C2: a channel with a low-sentiment streak and a 7-day average below 4.0 has
\* exactly one alert in the returned list, of severity critical.
C2_StreakAndLowAverageOneCritical ==
  AlertsDone =>
    \A c \in Range(channels) :
      (HasStreak(c) /\ LowAverage(c)) =>
        /\ Cardinality(AlertsOf(c)) = 1
        /\ \A i \in AlertsOf(c) : resp.alerts[i].severity = "critical"

(***************************************************************************)
(* Daily buckets.  Four dates (the day before the 7-day window, its       *)
(* cutoff date, a date inside and the last day) each hold no message, or  *)
(* morning messages of channel 1, of channel 2, or of both; channel 2 or  *)
(* both channels may be unregistered.                                      *)
(***************************************************************************)
BucketDates == <<0, 1, 5, LastDay>>

BucketKinds == {"none", "one", "two", "other", "both"}

BucketMessages(d, kind) ==
  IF kind = "none" THEN <<>>
  ELSE IF kind = "one" THEN MessagesOfDay(1, 1, d, 0, <<50>>)
  ELSE IF kind = "two" THEN MessagesOfDay(1, 1, d, 0, <<30, 70>>)
  ELSE IF kind = "other" THEN MessagesOfDay(2, 2, d, 0, <<60>>)
  ELSE MessagesOfDay(2, 2, d, 0, <<60>>) \o MessagesOfDay(1, 1, d, 0, <<40>>)

InitBuckets ==
  /\ backend \in Backends
  /\ channels \in {<<>>, <<1>>, <<1, 2>>}
  /\ \E f \in [DOMAIN BucketDates -> BucketKinds] :
       \* stored latest date first, as the history of a channel is fetched
       messages = Flatten([j \in DOMAIN BucketDates |->
                    BucketMessages(BucketDates[Len(BucketDates) + 1 - j],
                                   f[Len(BucketDates) + 1 - j])])
  /\ alerts = <<>>
  /\ now = [day |-> LastDay, tod |-> 1]
  /\ resp = NoResp
  /\ proc = Idle

NextBuckets == GetDailyMoodTrends \/ GetChannelSentimentTrend

SpecBuckets == InitBuckets /\ [][NextBuckets]_vars

\* The messages a bucket query reads: those of the channel asked about, or, for
\* the daily mood, every message (SQLite) or the messages of the registered
\* channels (KV); and of those the ones inside the window of the call.
BucketSource ==
  {i \in DOMAIN messages :
     /\ IF resp.op = "getChannelSentimentTrend"
          THEN messages[i].channel_id = resp.args.channel
          ELSE backend = "kv" => \E k \in DOMAIN channels :
                                   channels[k] = messages[i].channel_id
     /\ IF backend = "sqlite"
          THEN messages[i].day >= now.day - resp.args.days
          ELSE \/ messages[i].day > now.day - resp.args.days
               \/ /\ messages[i].day = now.day - resp.args.days
                  /\ messages[i].tod >= now.tod}

BucketCount(row) ==
  IF resp.op = "getChannelSentimentTrend" THEN row.message_count
  ELSE row.total_messages

WeeklyNow == WeeksAlerts * DaysPerWeek + 2

\* Tuesday and Wednesday (cutoff) of the first week; Saturday, Sunday, Monday,
\* Wednesday, Saturday, Sunday of later weeks; the day of the request.
WeeklyDates == <<1, 2, 20, 21, 22, 24, 27, 28, WeeklyNow>>

InitWeekly ==
  /\ backend \in Backends
  /\ channels = <<1>>
  /\ \E present \in [DOMAIN WeeklyDates -> BOOLEAN] :
       messages = Flatten([j \in DOMAIN WeeklyDates |->
                    IF present[j]
                      THEN MessagesOfDay(1, 1 + (j % 2), WeeklyDates[j], 1,
                                         <<30 + 5 * j>>)
                      ELSE <<>>])
  /\ alerts = <<>>
  /\ now = [day |-> WeeklyNow, tod |-> 1]
  /\ resp = NoResp
  /\ proc = Idle

NextWeekly == GetWeeklyMoodTrends

SpecWeekly == InitWeekly /\ [][NextWeekly]_vars

\* The most recent Sunday on or before day d.
SundayOnOrBefore(d) == CHOOSE s \in (d - 6)..d : s % 7 = 0

\* The in-window messages getWeeklyMoodTrends reads.
WeeklySource ==
  {i \in DOMAIN messages :
     IF backend = "sqlite"
       THEN messages[i].day >= now.day - resp.args.days
       ELSE \/ messages[i].day > now.day - resp.args.days
            \/ /\ messages[i].day = now.day - resp.args.days
               /\ messages[i].tod >= now.tod}

\* C12: the week_start of every weekly bucket is the most recent Sunday on or
\* before the dates of the messages it aggregates, and two messages are in one
\* bucket exactly when they share that Sunday: there is one bucket for each
\* Sunday of a message, holding the messages of that Sunday's week.
C12_WeekStartsOnSunday ==
  resp.op = "getWeeklyMoodTrends" =>
    /\ {resp.rows[i].week_start : i \in DOMAIN resp.rows}
         = {SundayOnOrBefore(messages[j].day) : j \in WeeklySource}
    /\ \A i \in DOMAIN resp.rows :
         resp.rows[i].total_messages =
           Cardinality({j \in WeeklySource :
                          SundayOnOrBefore(messages[j].day) = resp.rows[i].week_start})
    /\ Len(resp.rows)
         = Cardinality({SundayOnOrBefore(messages[j].day) : j \in WeeklySource})

(***************************************************************************)
(* Collections and analyses on a store that starts empty.                 *)
(***************************************************************************)
InitCollect ==
  /\ backend \in Backends
  /\ channels \in {<<>>, <<1>>}
  /\ messages = <<>>
  /\ alerts = <<>>
  /\ now = [day |-> LastDay, tod |-> 1]
  /\ resp = NoResp
  /\ proc = Idle

NextCollect == CollectMessages \/ AnalyzeSentiment

SpecCollect == InitCollect /\ [][NextCollect]_vars

\* C13: after any sequence of collections and analyses, every stored message
\* has a sentiment_score in the closed range [1,10].
C13_StoredScoresInRange ==
  \A i \in DOMAIN messages :
    /\ messages[i].sentiment_score >= 10
    /\ messages[i].sentiment_score <= 100

\* The fetched messages of the last collection that were saved, in order.
IsComplete(f) == f.complete

SavedFetched == SubSeq(SelectSeq(resp.fetched, IsComplete), 1, resp.processed)

\* The value of an emoji: its entry of the emoji table, 5 without one.
EmojiValueOrFive(e) == IF e \in DOMAIN EmojiMap THEN EmojiMap[e] ELSE 5

\* 0.7 times the text score plus 0.3 times the reaction-count-weighted mean of
\* the emoji values, in tenths; the text score without reactions.
WeightedScore(f) ==
  LET rs == f.reactions
      total == FSum([j \in DOMAIN rs |-> ReactionWeight(rs[j])], DOMAIN rs)
      sum == FSum([j \in DOMAIN rs |->
                     EmojiValueOrFive(rs[j].name) * ReactionWeight(rs[j])],
                  DOMAIN rs)
  IN IF total = 0 THEN RInt(PlaceholderScore)
     ELSE RAdd(Rat(7 * PlaceholderScore, 10), Rat(3 * 10 * sum, 10 * total))

\* C20: the score stored for a collected message with reactions is 0.7 times
\* its text score plus 0.3 times the weighted mean of its emoji values, unknown
\* emoji counting as 5, in whichever backend is active; a message without
\* reactions keeps its text score.
C20_StoredScoreIsWeightedMix ==
  resp.op = "collectMessages" =>
    \A k \in 1..resp.processed :
      REq(RInt(messages[Len(messages) - resp.processed + k].sentiment_score),
          WeightedScore(SavedFetched[k]))

(***************************************************************************)
(* Daily aggregates of collected stores.                                   *)
(***************************************************************************)
NextQuality == CollectMessages \/ GetDailyMoodTrends

SpecQuality == InitCollect /\ [][NextQuality]_vars

InRange(m) == m.sentiment_score >= 10 /\ m.sentiment_score <= 100

\* The in-range messages of date d that the last getDailyMoodTrends read.
InRangeOfDate(d) ==
  {i \in MoodRows(resp.args.days) : messages[i].day = d /\ InRange(messages[i])}

\* C14: a stored message whose sentiment_score is outside [1,10] is excluded
\* from every aggregate, which equals the one computed from the in-range
\* messages only: the daily buckets are those of the dates that have an
\* in-range message, and each counts and averages its in-range messages.
C14_OutOfRangeExcluded ==
  resp.op = "getDailyMoodTrends" =>
    /\ {resp.rows[k].date : k \in DOMAIN resp.rows}
         = {messages[i].day :
              i \in {j \in MoodRows(resp.args.days) : InRange(messages[j])}}
    /\ \A k \in DOMAIN resp.rows :
         LET I == InRangeOfDate(resp.rows[k].date)
         IN /\ resp.rows[k].total_messages = Cardinality(I)
            /\ I # {} =>
                 REq(resp.rows[k].overall_mood,
                     Rat(FSum([i \in I |-> messages[i].sentiment_score], I),
                         Cardinality(I)))

NextAlertStore == PostAlerts \/ GetAlerts

SpecAlertStore == InitAlerts /\ [][NextAlertStore]_vars

\* C16: across repeated alert-generation runs on unchanged data the store
\* never holds more than one unresolved alert for the same
\* (channel_id, alert_type) pair.
C16_OneUnresolvedPerKey ==
  \A i, j \in DOMAIN alerts :
    (/\ i < j
     /\ ~alerts[i].is_resolved
     /\ ~alerts[j].is_resolved
     /\ alerts[i].channel_id = alerts[j].channel_id)
      => alerts[i].alert_type # alerts[j].alert_type

\* How often the alert a occurs in the sequence u.
Occurrences(a, u) == Cardinality({i \in DOMAIN u : u[i] = a})

\* C17: every stored alert is unresolved in every reachable state, and
\* getAlerts without a channel returns every alert ever saved.
C17_AlertsStayOpen ==
  /\ \A i \in DOMAIN alerts : ~alerts[i].is_resolved
  /\ (resp.op = "getAlerts" /\ resp.args.channel = 0) =>
       /\ Len(resp.rows) = Len(alerts)
       /\ \A i \in DOMAIN alerts :
            Occurrences(alerts[i], resp.rows) = Occurrences(alerts[i], alerts)

\* The two alerts that two runs saved for one channel are both returned.
C17_Witness ==
  /\ resp.op = "getAlerts"
  /\ resp.args.channel = 0
  /\ Len(alerts) = 2
  /\ Len(resp.rows) = 2
  /\ resp.rows[1].channel_id = resp.rows[2].channel_id

\* C18: alert generation emits exactly one individual_risk insight per at-risk
\* user of the burnout analysis, critical when the user's mean sentiment is
\* below 3.0 and warning otherwise, whatever channel alerts the same run
\* emitted, and the insights are in ascending order of mean sentiment.
C18_OneInsightPerAtRiskUser ==
  resp.op = "postAlerts" =>
    /\ Len(resp.insights) = Len(resp.risks.at_risk_users)
    /\ \A u \in {resp.risks.at_risk_users[i].user_id :
                    i \in DOMAIN resp.risks.at_risk_users} :
         Cardinality({k \in DOMAIN resp.insights : resp.insights[k].user_id = u}) = 1
    /\ \A k \in DOMAIN resp.insights :
         /\ resp.insights[k].type = "individual_risk"
         /\ resp.insights[k].severity =
              IF RLt(resp.insights[k].avg_sentiment, RInt(30))
                THEN "critical" ELSE "warning"
         /\ \E i \in DOMAIN resp.risks.at_risk_users :
              /\ resp.risks.at_risk_users[i].user_id = resp.insights[k].user_id
              /\ REq(resp.risks.at_risk_users[i].avg_sentiment,
                     resp.insights[k].avg_sentiment)
    /\ \A j, k \in DOMAIN resp.insights :
         j < k => RLe(resp.insights[j].avg_sentiment, resp.insights[k].avg_sentiment)

\* Two at-risk users, one critical and one warning, whose channels (channel c
\* is written by user c) both have an alert of the same run.
C18_Witness ==
  /\ resp.op = "postAlerts"
  /\ Len(resp.insights) = 2
  /\ resp.insights[1].severity = "critical"
  /\ resp.insights[2].severity = "warning"
  /\ RLt(resp.insights[1].avg_sentiment, resp.insights[2].avg_sentiment)
  /\ \A k \in DOMAIN resp.insights : HasAlert(resp.alerts, resp.insights[k].user_id)

(***************************************************************************)
(* Stores with and without messages, with and without registered channels.*)
(***************************************************************************)
EmptyShapes == {<<>>, <<30, 20, 10>>, <<65, 38, 38, 38>>, <<70, 70, 70>>}

InitEmpty ==
  /\ backend \in Backends
  /\ channels \in {<<>>, <<1, 2>>}
  /\ \E s1 \in EmptyShapes, s2 \in EmptyShapes :
       messages = ShapeMessages(1, s1, 1) \o ShapeMessages(2, s2, 1)
  /\ alerts = <<>>
  /\ now = [day |-> LastDay, tod |-> 1]
  /\ resp = NoResp
  /\ proc = Idle

NextEmpty ==
  \/ DetectBurnoutRisks
  \/ GetDailyMoodTrends
  \/ GetWeeklyMoodTrends
  \/ GetChannelSentimentTrend
  \/ PostAlerts
  \/ GetDashboard

SpecEmpty == InitEmpty /\ [][NextEmpty]_vars

\* C19: with no stored messages, with or without stored channels, every
\* aggregate query returns an empty result, and POST /api/alerts and GET
\* /api/dashboard succeed: no alerts, no insights, a null weekly insight and
\* weekly comparison, zero totals and a null top and most concerning channel.
C19_NoMessagesNoFault ==
  messages = <<>> =>
    /\ resp.status = 200
    /\ resp.rows = <<>>
    /\ resp.risks = NoRisks
    /\ resp.alerts = <<>>
    /\ resp.insights = <<>>
    /\ resp.weekly_insight = Null
    /\ resp.summary = NoSummary
    /\ resp.op = "getDashboard" =>
         /\ resp.dashboard.summary.total_channels = 0
         /\ resp.dashboard.summary.total_messages = 0
         /\ resp.dashboard.summary.total_active_users = 0
         /\ REq(resp.dashboard.summary.avg_sentiment_all_channels, RInt(0))
         /\ REq(resp.dashboard.summary.avg_burnout_risk, RInt(0))
         /\ resp.dashboard.channels = <<>>
         /\ resp.dashboard.daily_trends = <<>>
         /\ resp.dashboard.weekly_trends = <<>>
         /\ resp.dashboard.channel_trends = <<>>
         /\ resp.dashboard.weekly_comparison = Null
         /\ resp.dashboard.insights.top_performing_channel = Null
         /\ resp.dashboard.insights.most_concerning_channel = Null
         /\ resp.dashboard.insights.trend_direction = "stable"
         /\ resp.dashboard.recent_activity = <<>>

\* The dashboard of a store with two registered channels and no message.
C19_Witness ==
  /\ messages = <<>>
  /\ channels = <<1, 2>>
  /\ resp.op = "getDashboard"
  /\ resp.dashboard.summary.sentiment_health = "concerning"

(***************************************************************************)
(* POST /api/slack/messages, step by step: the requests to Slack.  proc   *)
(* holds requestCount, whether cursor is truthy, the number of fetched    *)
(* messages that have replies (parents), the number of those already      *)
(* handled by the thread loop, and the log of the delays and requests     *)
(* made so far ("delay", "history", "replies").                           *)
(***************************************************************************)
\* if (requestCount > 10) break
MaxPages == 10

\* The most messages with replies that the pages hold together.
MaxThreads == 2

\* Variant of NeedsDelay that waits from the third request on.
NeedsDelayLate(requestCount) == requestCount > 1

\* if (requestCount > 0) await delay(1000)
NeedsDelay(requestCount) == requestCount > 0

\* Variant of HitSafetyLimit that allows one more page.
HitSafetyLimitLate(requestCount) == requestCount > MaxPages + 1

HitSafetyLimit(requestCount) == requestCount > MaxPages

FetchStart ==
  [kind |-> "fetch", pc |-> "history", requestCount |-> 0, cursor |-> FALSE,
   parents |-> 0, handled |-> 0, status |-> 200, log |-> <<>>]

\* The top of the do-while body.
HistoryRateLimit ==
  /\ proc.kind = "fetch"
  /\ proc.pc = "history"
  /\ proc' = [proc EXCEPT
               !.pc = "request",
               !.log = IF NeedsDelay(proc.requestCount)
                         THEN Append(@, "delay") ELSE @]
  /\ UNCHANGED <<backend, channels, messages, alerts, now, resp>>

\* slack.conversations.history and the rest of the body: Slack answers with a
\* page that has a next cursor or not and found messages with replies, or the
\* call throws and the handler ends in its catch.
HistoryRequest ==
  /\ proc.kind = "fetch"
  /\ proc.pc = "request"
  /\ \E throws \in BOOLEAN, next \in BOOLEAN, found \in 0..1 :
       /\ proc.parents + found <= MaxThreads
       /\ proc' =
            IF throws
              THEN [proc EXCEPT !.pc = "done", !.status = 500,
                                !.log = Append(@, "history")]
              ELSE [proc EXCEPT
                      !.log = Append(@, "history"),
                      !.parents = @ + found,
                      !.cursor = next,
                      !.requestCount = @ + 1,
                      !.pc = IF HitSafetyLimit(proc.requestCount + 1) THEN "threads"
                             ELSE IF next THEN "history" ELSE "threads"]
  /\ UNCHANGED <<backend, channels, messages, alerts, now, resp>>

\* The for loop over allMessages: the next message with replies, after its
\* delay, or the end of the loop.
ThreadRateLimit ==
  /\ proc.kind = "fetch"
  /\ proc.pc = "threads"
  /\ proc' = IF proc.handled < proc.parents
               THEN [proc EXCEPT !.pc = "replies", !.log = Append(@, "delay")]
               ELSE [proc EXCEPT !.pc = "done"]
  /\ UNCHANGED <<backend, channels, messages, alerts, now, resp>>

\* slack.conversations.replies; a failure is caught and the loop goes on.
ThreadRequest ==
  /\ proc.kind = "fetch"
  /\ proc.pc = "replies"
  /\ proc' = [proc EXCEPT !.pc = "threads", !.handled = @ + 1,
                          !.log = Append(@, "replies")]
  /\ UNCHANGED <<backend, channels, messages, alerts, now, resp>>

InitFetch ==
  /\ backend \in Backends
  /\ channels = <<1>>
  /\ messages = <<>>
  /\ alerts = <<>>
  /\ now = [day |-> LastDay, tod |-> 1]
  /\ resp = NoResp
  /\ proc = FetchStart

NextFetch == HistoryRateLimit \/ HistoryRequest \/ ThreadRateLimit \/ ThreadRequest

SpecFetch == InitFetch /\ [][NextFetch]_vars

\* Every step of the handler that is enabled is eventually taken.
SpecFetchLive == SpecFetch /\ WF_vars(NextFetch)

IsSlackRequest(e) == e \in {"history", "replies"}

\* C21: during one collection every Slack request other than the very first
\* is immediately preceded by a delay step, so no two requests are back to
\* back.
C21_DelayBeforeEveryRequest ==
  proc.kind = "fetch" =>
    \A i \in 2..Len(proc.log) :
      IsSlackRequest(proc.log[i]) => proc.log[i - 1] = "delay"

\* A finished collection of two pages and one thread.
C21_Witness ==
  /\ proc.kind = "fetch"
  /\ proc.pc = "done"
  /\ proc.log = <<"history", "delay", "history", "delay", "replies">>

HistoryRequests == Cardinality({i \in DOMAIN proc.log : proc.log[i] = "history"})

\* C26: the pagination loop always terminates: it is left as soon as a page
\* carries no next cursor, and after at most 11 page requests whatever Slack
\* returns.
C26_PaginationTerminates ==
  /\ [](HistoryRequests <= 11)
  /\ []((proc.pc \in {"history", "request"} /\ proc.requestCount > 0) => proc.cursor)
  /\ <>(proc.pc \in {"threads", "replies", "done"})

\* Slack returned a cursor with every page, and the loop was left after the
\* eleventh request.
C26_Witness ==
  /\ proc.kind = "fetch"
  /\ proc.pc = "threads"
  /\ proc.cursor
  /\ proc.requestCount = 11
  /\ HistoryRequests = 11

(***************************************************************************)
(* The two backends side by side on one store.                             *)
(***************************************************************************)
StreakKeys(rows) ==
  [i \in DOMAIN rows |-> <<rows[i].channel_id, rows[i].consecutive_days>>]

ChannelKeys(rows) == [i \in DOMAIN rows |-> rows[i].channel_id]

UserKeys(rows) == [i \in DOMAIN rows |-> rows[i].user_id]

\* C22: for the same stored channels and messages detectBurnoutRisks returns
\* the same consecutive_low_channels, declining_trend_channels and
\* at_risk_users in the KV backend and in the SQLite backend, so alert
\* generation produces the same alerts with either.
C22_BackendsAgree ==
  resp.op = "postAlerts" =>
    /\ StreakKeys(SqliteDetectBurnoutRisks.consecutive_low_channels)
         = StreakKeys(KvDetectBurnoutRisks.consecutive_low_channels)
    /\ ChannelKeys(SqliteDetectBurnoutRisks.declining_trend_channels)
         = ChannelKeys(KvDetectBurnoutRisks.declining_trend_channels)
    /\ UserKeys(SqliteDetectBurnoutRisks.at_risk_users)
         = UserKeys(KvDetectBurnoutRisks.at_risk_users)

(***************************************************************************)
(* Record identifiers of the KV store.                                     *)
(***************************************************************************)
IdJitter == 1000

MaxClock == 3

MaxIds == 3

\* Math.floor(Math.random() * 1000): a sample of the values 0 .. 999.
JitterValues == {0, 1, IdJitter - 1}

GenerateId(clock, jitter) == clock + jitter

IdsStart == [kind |-> "ids", clock |-> 0, ids |-> <<>>]

\* Date.now() advances by a millisecond.
ClockTick ==
  /\ proc.kind = "ids"
  /\ proc.clock < MaxClock
  /\ proc' = [proc EXCEPT !.clock = @ + 1]
  /\ UNCHANGED <<backend, channels, messages, alerts, now, resp>>

\* saveMessage, saveReaction, saveAlert: the record gets generateId() and is
\* pushed to its list.
SaveRecord ==
  /\ proc.kind = "ids"
  /\ Len(proc.ids) < MaxIds
  /\ \E jitter \in JitterValues :
       proc' = [proc EXCEPT !.ids = Append(@, GenerateId(proc.clock, jitter))]
  /\ UNCHANGED <<backend, channels, messages, alerts, now, resp>>

InitIds ==
  /\ backend = "kv"
  /\ channels = <<1>>
  /\ messages = <<>>
  /\ alerts = <<>>
  /\ now = [day |-> LastDay, tod |-> 1]
  /\ resp = NoResp
  /\ proc = IdsStart

NextIds == ClockTick \/ SaveRecord

SpecIds == InitIds /\ [][NextIds]_vars

\* C23: the ids generateId gives to any two distinct saved records are
\* different, also when both are saved within the same second.
C23_IdsDistinct ==
  \A i, j \in DOMAIN proc.ids : i # j => proc.ids[i] # proc.ids[j]

(***************************************************************************)
(* The dashboard page: the state of the component during its initial load. *)
(***************************************************************************)
MockChannels == <<"C1", "CDTPC3FKL">>

RealChannelIds == {"C7", "C8", "C9"}

\* The channels arrays GET /api/dashboard can answer with: lists of distinct
\* ids, the empty list included.
ReturnedChannels ==
  {<<>>} \cup {<<a>> : a \in RealChannelIds}
         \cup {p \in RealChannelIds \X RealChannelIds : p[1] # p[2]}

\* useState initial values; closure is the selectedChannel the mount effect,
\* which has no dependencies and runs once, captured at the first render.
PageStart ==
  [kind |-> "page", pc |-> "mount", channels |-> <<>>, selectedChannel |-> "",
   closure |-> "", returned |-> <<>>, loaded |-> FALSE, seen |-> "",
   insights |-> ""]

\* fetchDashboardData: on an OK response setChannels(data.channels) and, when
\* the list is not empty, setSelectedChannel(data.channels[0].id); on a failed
\* response or a thrown error nothing is set.
FetchDashboardData ==
  /\ proc.kind = "page"
  /\ proc.pc = "mount"
  /\ \E ok \in BOOLEAN, list \in ReturnedChannels :
       proc' = IF ok
               THEN [proc EXCEPT !.pc = "fetched", !.loaded = TRUE,
                                 !.returned = list, !.channels = list,
                                 !.selectedChannel =
                                   IF Len(list) > 0 THEN list[1] ELSE @]
               ELSE [proc EXCEPT !.pc = "fetched"]
  /\ UNCHANGED <<backend, channels, messages, alerts, now, resp>>

\* The .then callback of the mount effect: setChannels(prev => prev.length > 0
\* ? prev : mockChannels) and, if (!selectedChannel) on the captured value,
\* setSelectedChannel(mockChannels[0].id).
ApplyMockData ==
  /\ proc.kind = "page"
  /\ proc.pc = "fetched"
  /\ proc' = [proc EXCEPT !.pc = "done",
                          !.channels = IF Len(@) > 0 THEN @ ELSE MockChannels,
                          !.selectedChannel =
                            IF proc.closure = "" THEN MockChannels[1] ELSE @]
  /\ UNCHANGED <<backend, channels, messages, alerts, now, resp>>

\* The effect on [selectedChannel]: after a render with a new value it calls
\* fetchMessageInsights, which stores the evidence of an OK response.
FetchMessageInsightsEffect ==
  /\ proc.kind = "page"
  /\ proc.selectedChannel # proc.seen
  /\ \E ok \in BOOLEAN :
       proc' = [proc EXCEPT !.seen = proc.selectedChannel,
                            !.insights = IF ok /\ proc.selectedChannel # ""
                                         THEN proc.selectedChannel ELSE @]
  /\ UNCHANGED <<backend, channels, messages, alerts, now, resp>>

InitPage ==
  /\ backend \in Backends
  /\ channels = <<1>>
  /\ messages = <<>>
  /\ alerts = <<>>
  /\ now = [day |-> LastDay, tod |-> 1]
  /\ resp = NoResp
  /\ proc = PageStart

NextPage == FetchDashboardData \/ ApplyMockData \/ FetchMessageInsightsEffect

SpecPage == InitPage /\ [][NextPage]_vars

\* C24: when GET /api/dashboard returned at least one channel, after all the
\* callbacks of the initial load have run the channel list is the returned
\* list and the selected channel is the first returned channel, not the mock
\* channel C1.
C24_RealDataWins ==
  (proc.pc = "done" /\ proc.loaded /\ Len(proc.returned) > 0) =>
    /\ proc.channels = proc.returned
    /\ proc.selectedChannel = proc.returned[1]

(***************************************************************************)
(* Concurrent saveMessage calls on the KV key of one channel.              *)
(***************************************************************************)
Savers == {1, 2}

MaxSaves == 2

\* Two requests, each saving its messages one after the other; list is the
\* value of the key messages:<channel>, local the array a call has read.
SaveStart ==
  [kind |-> "save", list |-> <<>>,
   pc |-> [p \in Savers |-> "get"],
   saved |-> [p \in Savers |-> 0],
   local |-> [p \in Savers |-> <<>>]]

\* const channelMessages = await kv.get(`messages:${channel_id}`) || []
KvGetMessages(p) ==
  /\ proc.kind = "save"
  /\ proc.pc[p] = "get"
  /\ proc.saved[p] < MaxSaves
  /\ proc' = [proc EXCEPT !.pc[p] = "set", !.local[p] = proc.list]
  /\ UNCHANGED <<backend, channels, messages, alerts, now, resp>>

\* channelMessages.push(newMessage); await kv.set(key, channelMessages)
KvSetMessages(p) ==
  /\ proc.kind = "save"
  /\ proc.pc[p] = "set"
  /\ proc' = [proc EXCEPT !.pc[p] = "get",
                          !.saved[p] = @ + 1,
                          !.list = Append(proc.local[p], <<p, proc.saved[p] + 1>>)]
  /\ UNCHANGED <<backend, channels, messages, alerts, now, resp>>

InitSave ==
  /\ backend = "kv"
  /\ channels = <<1>>
  /\ messages = <<>>
  /\ alerts = <<>>
  /\ now = [day |-> LastDay, tod |-> 1]
  /\ resp = NoResp
  /\ proc = SaveStart

NextSave == \E p \in Savers : KvGetMessages(p) \/ KvSetMessages(p)

SpecSave == InitSave /\ [][NextSave]_vars

\* C25: after concurrent saveMessage calls for one channel have returned,
\* every message they saved is in the stored list; none is lost.
C25_NoMessageLost ==
  \A p \in Savers : \A k \in 1..proc.saved[p] :
    \E i \in DOMAIN proc.list : proc.list[i] = <<p, k>>

(***************************************************************************)
(* POST /api/sentiment/analyze, message by message.  A stored message      *)
(* carries the length of its cleaned text; the model answers a message     *)
(* with one of ModelAnswers or the call throws.                            *)
(***************************************************************************)
MinCleanLength == 3

SampleLimit == 10

MaxAnalyzed == 2

AnalyzeStart ==
  [kind |-> "analyze", pc |-> "start", reanalyze |-> FALSE, next |-> 1,
   results |-> <<>>, sent |-> {}, successCount |-> 0, errorCount |-> 0,
   body |-> Null]

\* The status of the entry the loop body pushes for a message.
ResultStatus(m, reanalyze, answer, throws) ==
  IF AlreadyAnalyzed(m, reanalyze) THEN "skipped"
  ELSE IF m.clean_len < MinCleanLength THEN "skipped_short"
  ELSE IF throws THEN "error"
  ELSE IF answer = 0 THEN "error_invalid_score"
  ELSE "analyzed"

\* generateText is reached when neither continue was taken.
SentToModel(m, reanalyze) ==
  /\ ~AlreadyAnalyzed(m, reanalyze)
  /\ m.clean_len >= MinCleanLength

ResultScore(m, status, answer) ==
  IF status = "skipped" THEN m.sentiment_score
  ELSE IF status = "analyzed" THEN answer
  ELSE PlaceholderScore

SkippedCountOfSuccess(total, successCount, errorCount) == total - successCount

\* skipped: messages.length - successCount - errorCount
SkippedCount(total, successCount, errorCount) == total - successCount - errorCount

\* The request is read and the messages are fetched; no message: 404.
AnalyzeRequest ==
  /\ proc.kind = "analyze"
  /\ proc.pc = "start"
  /\ \E reanalyze \in BOOLEAN :
       IF messages = <<>>
         THEN /\ proc' = [proc EXCEPT !.pc = "done", !.reanalyze = reanalyze]
              /\ resp' = [NoResp EXCEPT !.op = "analyzeSentiment", !.status = 404]
         ELSE /\ proc' = [proc EXCEPT !.pc = "loop", !.reanalyze = reanalyze]
              /\ UNCHANGED resp
  /\ UNCHANGED <<backend, channels, messages, alerts, now>>

\* One iteration of for (const message of messages), its catch included.
AnalyzeMessage ==
  /\ proc.kind = "analyze"
  /\ proc.pc = "loop"
  /\ proc.next <= Len(messages)
  /\ \E answer \in ModelAnswers, throws \in BOOLEAN :
       LET m == messages[proc.next]
           status == ResultStatus(m, proc.reanalyze, answer, throws)
       IN proc' = [proc EXCEPT
                     !.next = @ + 1,
                     !.results = Append(@, [id |-> proc.next, status |-> status,
                                            sentiment_score |->
                                              ResultScore(m, status, answer)]),
                     !.sent = IF SentToModel(m, proc.reanalyze)
                                THEN @ \cup {proc.next} ELSE @,
                     !.successCount = IF status = "analyzed" THEN @ + 1 ELSE @,
                     !.errorCount = IF status \in {"error", "error_invalid_score"}
                                      THEN @ + 1 ELSE @]
  /\ UNCHANGED <<backend, channels, messages, alerts, now, resp>>

\* The response after the loop.
AnalyzeRespond ==
  /\ proc.kind = "analyze"
  /\ proc.pc = "loop"
  /\ proc.next > Len(messages)
  /\ proc' = [proc EXCEPT
                !.pc = "done",
                !.body = [total_messages |-> Len(messages),
                          analyzed |-> proc.successCount,
                          errors |-> proc.errorCount,
                          skipped |-> SkippedCount(Len(messages), proc.successCount,
                                                   proc.errorCount)]]
  /\ resp' = [NoResp EXCEPT
                !.op = "analyzeSentiment",
                !.rows = SubSeq(proc.results, 1,
                                IF Len(proc.results) < SampleLimit
                                  THEN Len(proc.results) ELSE SampleLimit)]
  /\ UNCHANGED <<backend, channels, messages, alerts, now>>

\* Stored messages of one channel: NULL, 0, the placeholder 5.0 or 3.8 as
\* score, a cleaned text of 2 or of 3 characters.
AnalyzeKinds ==
  {[channel_id |-> 1, user_id |-> 1, day |-> LastDay, tod |-> 0,
    sentiment_score |-> sc, clean_len |-> n] :
     sc \in {NullScore, 0, PlaceholderScore, 38}, n \in {2, 3}}

InitAnalyze ==
  /\ backend \in Backends
  /\ channels = <<1>>
  /\ \E n \in 0..MaxAnalyzed : messages \in [1..n -> AnalyzeKinds]
  /\ alerts = <<>>
  /\ now = [day |-> LastDay, tod |-> 1]
  /\ resp = NoResp
  /\ proc = AnalyzeStart

NextAnalyze == AnalyzeRequest \/ AnalyzeMessage \/ AnalyzeRespond

SpecAnalyze == InitAnalyze /\ [][NextAnalyze]_vars

ResultStatuses ==
  {"skipped", "skipped_short", "analyzed", "error_invalid_score", "error"}

StatusCount(S) ==
  Cardinality({i \in DOMAIN proc.results : proc.results[i].status \in S})

\* C27: every fetched message produces exactly one result entry with exactly
\* one of the five statuses, a failure on one message never prevents the
\* later ones from being processed, and in the response analyzed + errors +
\* skipped = total_messages with skipped the number of skipped and
\* skipped_short entries.
C27_OneResultPerMessage ==
  /\ Len(proc.results) = proc.next - 1
  /\ \A i \in DOMAIN proc.results :
       /\ proc.results[i].id = i
       /\ proc.results[i].status \in ResultStatuses
  /\ (proc.pc = "done" /\ messages # <<>>) =>
       /\ Len(proc.results) = Len(messages)
       /\ proc.body.total_messages = Len(messages)
       /\ proc.body.analyzed + proc.body.errors + proc.body.skipped
            = proc.body.total_messages
       /\ proc.body.analyzed = StatusCount({"analyzed"})
       /\ proc.body.errors = StatusCount({"error", "error_invalid_score"})
       /\ proc.body.skipped = StatusCount({"skipped", "skipped_short"})

C27_Witness ==
  /\ proc.pc = "done"
  /\ Len(proc.results) = 2
  /\ proc.results[1].status = "error"
  /\ proc.results[2].status = "skipped_short"
  /\ proc.body.errors = 1
  /\ proc.body.skipped = 1

Unscored(m) == m.sentiment_score \in {NullScore, 0, PlaceholderScore}

\* C28: with reanalyze false a message is sent to the model only if its
\* stored score is 5.0 (or falsy) and its cleaned text has at least 3
\* characters; a message with any other stored score is reported skipped
\* with its stored score; with reanalyze true none is skipped for already
\* having a score.
C28_SkipsScoredUnlessReanalyze ==
  \A i \in DOMAIN proc.results :
    /\ (i \in proc.sent) <=>
         /\ proc.reanalyze \/ Unscored(messages[i])
         /\ messages[i].clean_len >= MinCleanLength
    /\ (~proc.reanalyze /\ ~Unscored(messages[i])) =>
         /\ proc.results[i].status = "skipped"
         /\ proc.results[i].sentiment_score = messages[i].sentiment_score
    /\ proc.reanalyze => proc.results[i].status # "skipped"

C28_Witness ==
  /\ proc.pc = "done"
  /\ proc.reanalyze
  /\ Len(proc.results) = 2
  /\ messages[1].sentiment_score = 38
  /\ 1 \in proc.sent
  /\ proc.results[1].status = "analyzed"
  /\ messages[2].sentiment_score = 38
  /\ proc.results[2].status = "skipped_short"

(***************************************************************************)
(* The setup wizard of the home page.  A handler runs when its button is   *)
(* rendered and enabled; its continuation after the awaited request is a   *)
(* step of its own.                                                        *)
(***************************************************************************)
LastStep == 4

SlackChannelLists == {{}, {"C7"}, {"C7", "C8"}}

WizardStart ==
  [kind |-> "wizard", step |-> 0, loading |-> FALSE, channels |-> {},
   selectedChannels |-> {}, pending |-> "none", remaining |-> {},
   last |-> "none"]

\* data.success || (data.channels && data.channels.length > 0)
ConnectSucceeded(success, list) == success \/ list # {}

ContinueEnabledAlways(selected) == TRUE

\* disabled={selectedChannels.length === 0}
ContinueEnabled(selected) == selected # {}

\* The Connect button of step 0 starts handleConnectSlack.
ClickConnect ==
  /\ proc.kind = "wizard"
  /\ proc.step = 0
  /\ ~proc.loading
  /\ proc' = [proc EXCEPT !.loading = TRUE, !.pending = "connect",
                          !.last = "click"]
  /\ UNCHANGED <<backend, channels, messages, alerts, now, resp>>

\* handleConnectSlack after the fetch: a thrown error, or a body.
ConnectResponds ==
  /\ proc.kind = "wizard"
  /\ proc.pending = "connect"
  /\ \E throws \in BOOLEAN, success \in BOOLEAN, list \in SlackChannelLists :
       proc' = IF ~throws /\ ConnectSucceeded(success, list)
               THEN [proc EXCEPT !.channels = list, !.step = 1,
                                 !.loading = FALSE, !.pending = "none",
                                 !.last = "connect_ok"]
               ELSE [proc EXCEPT !.loading = FALSE, !.pending = "none",
                                 !.last = "connect_failed"]
  /\ UNCHANGED <<backend, channels, messages, alerts, now, resp>>

\* A checkbox of step 1.
ToggleChannel ==
  /\ proc.kind = "wizard"
  /\ proc.step = 1
  /\ \E c \in proc.channels :
       proc' = [proc EXCEPT !.selectedChannels =
                              IF c \in @ THEN @ \ {c} ELSE @ \cup {c},
                            !.last = "click"]
  /\ UNCHANGED <<backend, channels, messages, alerts, now, resp>>

ClickBack ==
  /\ proc.kind = "wizard"
  /\ proc.step = 1
  /\ proc' = [proc EXCEPT !.step = 0, !.last = "click"]
  /\ UNCHANGED <<backend, channels, messages, alerts, now, resp>>

ClickContinue ==
  /\ proc.kind = "wizard"
  /\ proc.step = 1
  /\ ContinueEnabled(proc.selectedChannels)
  /\ proc' = [proc EXCEPT !.step = 2, !.last = "click"]
  /\ UNCHANGED <<backend, channels, messages, alerts, now, resp>>

\* The Collect button of step 2 starts handleCollectMessages.
ClickCollect ==
  /\ proc.kind = "wizard"
  /\ proc.step = 2
  /\ ~proc.loading
  /\ proc' = [proc EXCEPT !.loading = TRUE, !.pending = "collect",
                          !.remaining = proc.selectedChannels,
                          !.last = "click"]
  /\ UNCHANGED <<backend, channels, messages, alerts, now, resp>>

\* One POST /api/slack/messages of the loop; its failure is logged only.
CollectChannel ==
  /\ proc.kind = "wizard"
  /\ proc.pending = "collect"
  /\ \E c \in proc.remaining :
       proc' = [proc EXCEPT !.remaining = @ \ {c}]
  /\ UNCHANGED <<backend, channels, messages, alerts, now, resp>>

CollectDone ==
  /\ proc.kind = "wizard"
  /\ proc.pending = "collect"
  /\ proc.remaining = {}
  /\ proc' = [proc EXCEPT !.step = 3, !.loading = FALSE, !.pending = "none",
                          !.last = "collected"]
  /\ UNCHANGED <<backend, channels, messages, alerts, now, resp>>

\* The Analyze button of step 3 starts handleAnalyzeSentiment.
ClickAnalyze ==
  /\ proc.kind = "wizard"
  /\ proc.step = 3
  /\ ~proc.loading
  /\ proc' = [proc EXCEPT !.loading = TRUE, !.pending = "analyze",
                          !.last = "click"]
  /\ UNCHANGED <<backend, channels, messages, alerts, now, resp>>

\* handleAnalyzeSentiment after the fetch: a thrown error, or a response
\* that is OK or not.
AnalyzeResponds ==
  /\ proc.kind = "wizard"
  /\ proc.pending = "analyze"
  /\ \E throws \in BOOLEAN, ok \in BOOLEAN :
       proc' = IF ~throws /\ ok
               THEN [proc EXCEPT !.step = 4, !.loading = FALSE,
                                 !.pending = "none", !.last = "analyze_ok"]
               ELSE [proc EXCEPT !.loading = FALSE, !.pending = "none",
                                 !.last = "analyze_failed"]
  /\ UNCHANGED <<backend, channels, messages, alerts, now, resp>>

InitWizard ==
  /\ backend \in Backends
  /\ channels = <<1>>
  /\ messages = <<>>
  /\ alerts = <<>>
  /\ now = [day |-> LastDay, tod |-> 1]
  /\ resp = NoResp
  /\ proc = WizardStart

NextWizard ==
  \/ ClickConnect \/ ConnectResponds \/ ToggleChannel \/ ClickBack
  \/ ClickContinue \/ ClickCollect \/ CollectChannel \/ CollectDone
  \/ ClickAnalyze \/ AnalyzeResponds

SpecWizard == InitWizard /\ [][NextWizard]_vars

\* The step changes the wizard may make.
StepMove ==
  \/ proc'.step = proc.step
  \/ /\ proc.step = 0 /\ proc'.step = 1
     /\ proc.pending = "connect" /\ proc'.last = "connect_ok"
  \/ /\ proc.step = 1 /\ proc'.step = 0
  \/ /\ proc.step = 1 /\ proc'.step = 2
     /\ proc.selectedChannels # {}
  \/ /\ proc.step = 2 /\ proc'.step = 3
     /\ proc.pending = "collect" /\ proc.remaining = {}
  \/ /\ proc.step = 3 /\ proc'.step = 4
     /\ proc.pending = "analyze" /\ proc'.last = "analyze_ok"

FailureKeepsStep ==
  (proc.pending # "none" /\ proc'.last \in {"connect_failed", "analyze_failed"})
    => proc'.step = proc.step

\* C29: the wizard step stays in 0..4 and changes only by 0->1 (Slack connect
\* succeeded or returned channels), 1->0 (Back), 1->2 (only with at least one
\* channel selected), 2->3 (after collection finished) and 3->4 (only
\* directly after the analysis request returned OK); a failed connect or a
\* failed analysis leaves the step unchanged.
C29_WizardSteps ==
  /\ [](proc.step \in 0..LastStep)
  /\ [][StepMove /\ FailureKeepsStep]_vars

C29_Witness ==
  /\ proc.step = LastStep
  /\ proc.last = "analyze_ok"
  /\ proc.selectedChannels = {"C7", "C8"}

(***************************************************************************)
(* What alert generation persists.                                         *)
(***************************************************************************)
CriticalCount(list) ==
  Cardinality({i \in DOMAIN list : list[i].alert_type = "burnout_critical"})

\* C30: alert generation persists a stored alert only for the
\* streak-triggered (burnout_critical) alerts; the other alerts are returned
\* and never saved, so every stored alert and every alert GET /api/alerts
\* returns has alert_type burnout_critical.
C30_OnlyStreakAlertsStored ==
  /\ [](\A i \in DOMAIN alerts : alerts[i].alert_type = "burnout_critical")
  /\ [](resp.op = "getAlerts" =>
          \A i \in DOMAIN resp.rows : resp.rows[i].alert_type = "burnout_critical")
  /\ [][resp'.op = "postAlerts" =>
          Len(alerts') = Len(alerts) + CriticalCount(resp'.alerts)]_vars

C30_Witness ==
  /\ resp.op = "postAlerts"
  /\ Len(alerts) = 1
  /\ CriticalCount(resp.alerts) = 1
  /\ Len(resp.alerts) > 1

====
